---- MODULE Spec2Model ----
(***************************************************************************)
(* zkhydra: tool adapters (execute -> parse -> normalize -> evaluate).     *)
(*                                                                         *)
(* Text is modelled as a sequence of lines, a line as a sequence of string *)
(* tokens: "x in line" is token membership, line.startswith(x) is the      *)
(* first token, line == x is line = <<x>>; the blank line is <<>>.         *)
(*                                                                         *)
(* Eight specifications:                                                   *)
(*   Spec      one invocation: AbstractTool.execute, then process_output   *)
(*   ParseSpec a tool's _helper_parse_output applied to a raw text         *)
(*   EvalSpec  a tool's ground-truth evaluator applied to its inputs       *)
(*   FuzzSpec  ZkFuzz's comparison applied to a generated ground truth     *)
(*   BatchSpec core.zkbugs_mode: the loop over bugs and tools              *)
(*   SummarySpec evaluate_mode of src/main.py and its summary              *)
(*   RegistrySpec construction of the adapters and their exit-code sets    *)
(*   ScanSpec  the loops of ConsCS's log parser, step by step              *)
(***************************************************************************)
EXTENDS Integers, Sequences, FiniteSets, TLC

VARIABLES
    pc,          \* position of the invocation
    tool,        \* the adapter (AbstractTool.name)
    proc,        \* what the environment did during execute (subprocess outcomes, files)
    runs,        \* the run_command calls of this invocation: <<[o, out], ...>>
    cwd,         \* process working directory
    toolOutput,  \* ToolOutput returned by execute
    rawFile,     \* content of raw.txt
    parsedOut,   \* the parser's record
    analysis,    \* AnalysisStatus of the normalizer
    toolResult,  \* ToolResult returned by process_output
    gt,          \* ground truth read by an evaluator
    toolData,    \* the tool data an evaluator reads
    evaluation,  \* the evaluator's verdict
    batch        \* the state of a zkbugs_mode (or evaluate_mode) run

vars == <<pc, tool, proc, runs, cwd, toolOutput, rawFile, parsedOut, analysis,
          toolResult, gt, toolData, evaluation, batch>>

----------------------------------------------------------------------------
\* Bounds

\* longest stdout / log text of a subprocess, in lines
MaxOutLines == 2
\* exit codes 0..MaxOtherCode are tried besides the codes of EXIT_CODES
MaxOtherCode == 3

----------------------------------------------------------------------------
\* Text helpers

TIMED_OUT == "[Timed out]"

StartsWith(line, tok) == Len(line) >= 1 /\ line[1] = tok

Contains(line, tok) == \E i \in DOMAIN line : line[i] = tok

\* line.split(prefix, 1)[1].strip() for a line that starts with prefix
Rest(line) == IF Len(line) >= 2 THEN line[2] ELSE ""

\* [line.strip() for line in f if line.strip()]
ReadLines(text) == SelectSeq(text, LAMBDA l : l # <<>>)

\* all texts of at most n lines over the lines of alphabet
TextsUpTo(alphabet, n) == UNION {[1..k -> alphabet] : k \in 0..n}

----------------------------------------------------------------------------
\* base.py

EXIT_CODES == {1, 2, 126, 127, 128, 130, 137, 139, 143, 255}

Tools == {"circomspect", "circom_civer", "picus", "ecneproject", "zkfuzz", "conscs"}

\* self.exit_codes after the adapter's __init__
exit_codes(t) == IF t = "circomspect" THEN EXIT_CODES \ {1} ELSE EXIT_CODES

NoOutput == [status |-> "none"]

ToolOutput(status, stdout, stderr, return_code, msg) ==
    [status |-> status, stdout |-> stdout, stderr |-> stderr,
     return_code |-> return_code, msg |-> msg]

\* f"stdout:\n{stdout}\nstderr:\n{stderr}"
CombinedMsg(stdout, stderr) == <<(<<"stdout:">>)>> \o stdout \o <<(<<"stderr:">>)>> \o stderr

\* "[Timed out]" plus the partial output, when there is any
TimeoutMsg(stdout, stderr) ==
    IF stdout # <<>> \/ stderr # <<>>
    THEN <<(<<TIMED_OUT>>), (<<"Partial stdout:">>)>> \o stdout
             \o <<(<<"Partial stderr:">>)>> \o stderr
    ELSE <<(<<TIMED_OUT>>)>>

\* Mutant: CalledProcessError is not caught, a non-zero exit propagates
RunCommandUncaught(codes, o) ==
    CASE o.kind = "exit" /\ o.returncode = 0 ->
            ToolOutput("success", o.stdout, o.stderr, 0, CombinedMsg(o.stdout, o.stderr))
      [] o.kind = "timeout" ->
            ToolOutput("timeout", o.stdout, o.stderr, -1, TimeoutMsg(o.stdout, o.stderr))
      [] OTHER -> [status |-> "raised"]

\* Mutant: every non-zero exit code is a failure
RunCommandAllFail(codes, o) ==
    CASE o.kind = "exit" /\ o.returncode = 0 ->
            ToolOutput("success", o.stdout, o.stderr, 0, CombinedMsg(o.stdout, o.stderr))
      [] o.kind = "timeout" ->
            ToolOutput("timeout", o.stdout, o.stderr, -1, TimeoutMsg(o.stdout, o.stderr))
      [] o.kind = "exit" /\ o.returncode # 0 ->
            ToolOutput("fail", o.stdout, o.stderr, o.returncode,
                       CombinedMsg(o.stdout, o.stderr))
      [] OTHER -> [status |-> "raised"]

\* AbstractTool.run_command: o is what subprocess.run did
\*   kind "exit": the process ended with o.returncode
\*   kind "timeout": TimeoutExpired, o.stdout / o.stderr are the partial output
\*   kind "oserror": subprocess.run raised another exception, which propagates
RunCommand(codes, o) ==
    CASE o.kind = "exit" /\ o.returncode = 0 ->
            ToolOutput("success", o.stdout, o.stderr, 0, CombinedMsg(o.stdout, o.stderr))
      [] o.kind = "timeout" ->
            ToolOutput("timeout", o.stdout, o.stderr, -1, TimeoutMsg(o.stdout, o.stderr))
      [] o.kind = "exit" /\ o.returncode # 0 ->
            IF o.returncode \in codes
            THEN ToolOutput("fail", o.stdout, o.stderr, o.returncode,
                            CombinedMsg(o.stdout, o.stderr))
            ELSE ToolOutput("success", o.stdout, o.stderr, o.returncode,
                            CombinedMsg(o.stdout, o.stderr))
      [] OTHER -> [status |-> "raised"]

----------------------------------------------------------------------------
\* The environment of one execute: subprocess outcomes and files

NoOutcome == [kind |-> "none", returncode |-> 0, stdout |-> <<>>, stderr |-> <<>>]

\* return codes tried: the listed codes, small codes, and death by SIGKILL
Codes == EXIT_CODES \cup (0..MaxOtherCode) \cup {-9}

Outcomes(stdouts, stderrs) ==
    [kind : {"exit"}, returncode : Codes, stdout : stdouts, stderr : stderrs]
    \cup [kind : {"timeout"}, returncode : {0}, stdout : stdouts, stderr : stderrs]
    \cup {[kind |-> "oserror", returncode |-> 0, stdout |-> <<>>, stderr |-> <<>>]}

NoLog == [exists |-> FALSE, readable |-> FALSE, content |-> <<>>]

NoProc == [o1 |-> NoOutcome, o2 |-> NoOutcome, compiled |-> TRUE, filesFound |-> TRUE,
           log |-> NoLog]

\* lines a zkfuzz run may print
ZkFuzzLines ==
    { <<"Everything went okay">>, <<"No Counter Example Found">>, <<"Counter Example">>,
      <<"UnderConstrained">>, <<"previous errors were found">>,
      <<TIMED_OUT>>, <<TIMED_OUT, "partial">>, <<>> }

\* lines of a ConsCS log
ConsCSLines ==
    { <<"** filename:", "A">>, <<"** result:", "UNDER-CONSTRAINED!">>,
      <<"** result:", "CONSTRAINED!">>, <<"** time:", "2">>, <<"garbage">>, <<TIMED_OUT>> }

GenericTexts == {<<>>, <<(<<"output">>)>>}

Procs(t) ==
    CASE t = "zkfuzz" ->
            [o1 : Outcomes(TextsUpTo(ZkFuzzLines, MaxOutLines),
                           {<<>>, <<(<<"Everything went okay">>)>>}),
             o2 : {NoOutcome}, compiled : {TRUE}, filesFound : {TRUE}, log : {NoLog}]
      [] t = "conscs" ->
            [o1 : Outcomes(GenericTexts, {<<>>}) \cup {NoOutcome},
             o2 : {NoOutcome}, compiled : BOOLEAN, filesFound : {TRUE},
             log : {NoLog}
                   \cup [exists : {TRUE}, readable : {FALSE}, content : {<<>>}]
                   \cup [exists : {TRUE}, readable : {TRUE},
                         content : TextsUpTo(ConsCSLines, MaxOutLines)]]
      [] t = "ecneproject" ->
            [o1 : Outcomes({<<>>}, GenericTexts),
             o2 : Outcomes(GenericTexts, {<<>>}) \cup {NoOutcome},
             compiled : {TRUE}, filesFound : BOOLEAN, log : {NoLog}]
      [] OTHER ->
            [o1 : Outcomes(GenericTexts, GenericTexts),
             o2 : {NoOutcome}, compiled : {TRUE}, filesFound : {TRUE}, log : {NoLog}]

----------------------------------------------------------------------------
\* _internal_execute of each adapter: [out, runs, cwd]

Raised == [status |-> "raised"]

\* circomspect.py, circom_civer.py, zkfuzz.py: one run_command
SimpleExecute(t, p, dir) ==
    LET out == RunCommand(exit_codes(t), p.o1)
    IN [out |-> out, runs |-> <<[o |-> p.o1, out |-> out]>>, cwd |-> dir]

\* Picus._internal_execute: chdir to the tool, run, chdir back
PicusExecute(t, p, dir) ==
    LET out == RunCommand(exit_codes(t), p.o1)
    IN [out |-> out, runs |-> <<[o |-> p.o1, out |-> out]>>,
        cwd |-> IF out.status = "raised" THEN "tool_dir" ELSE dir]

\* f"[{prefix} {msg}]"
Bracketed(prefix, msg) ==
    [i \in 1..Len(msg) |->
        (IF i = 1 THEN <<prefix>> ELSE <<>>) \o msg[i]
            \o (IF i = Len(msg) THEN <<"]">> ELSE <<>>)]

\* EcneProject._internal_execute: circom, then julia inside the tool directory
EcneExecute(t, p, dir) ==
    LET circom_output == RunCommand(exit_codes(t), p.o1)
        run1 == [o |-> p.o1, out |-> circom_output]
        result == RunCommand(exit_codes(t), p.o2)
        run2 == [o |-> p.o2, out |-> result]
    IN  IF circom_output.status = "raised"
        THEN [out |-> Raised, runs |-> <<run1>>, cwd |-> dir]
        ELSE IF circom_output.status # "success"
        THEN [out |-> ToolOutput("fail", circom_output.stdout, circom_output.stderr,
                                 circom_output.return_code,
                                 Bracketed("[Circom failed:", circom_output.msg)),
              runs |-> <<run1>>, cwd |-> dir]
        ELSE IF ~p.filesFound
        THEN [out |-> ToolOutput("fail", circom_output.stdout, circom_output.stderr,
                                 circom_output.return_code,
                                 Bracketed("[R1CS or sym file not found:",
                                           circom_output.msg)),
              runs |-> <<run1>>, cwd |-> dir]
        ELSE [out |-> result, runs |-> <<run1, run2>>,
              cwd |-> IF result.status = "raised" THEN "tool_dir" ELSE dir]

\* ConsCS._internal_execute: compile to R1CS, run, take the log file as the message
ConsCSExecute(t, p, dir) ==
    LET result == RunCommand(exit_codes(t), p.o1)
    IN  IF ~p.compiled
        THEN [out |-> ToolOutput("fail", <<>>,
                                 <<(<<"Failed to compile circuit to R1CS format">>)>>, 1,
                                 <<(<<"Failed to compile circuit to R1CS format">>)>>),
              runs |-> <<>>, cwd |-> dir]
        ELSE IF result.status = "raised"
        THEN [out |-> Raised, runs |-> <<[o |-> p.o1, out |-> result]>>, cwd |-> dir]
        ELSE [out |-> IF p.log.exists /\ p.log.readable
                      THEN [result EXCEPT !.msg = p.log.content]
                      ELSE result,
              runs |-> <<[o |-> p.o1, out |-> result]>>, cwd |-> dir]

InternalExecute(t, p, dir) ==
    CASE t = "picus" -> PicusExecute(t, p, dir)
      [] t = "ecneproject" -> EcneExecute(t, p, dir)
      [] t = "conscs" -> ConsCSExecute(t, p, dir)
      [] OTHER -> SimpleExecute(t, p, dir)

\* the environment choices _internal_execute really consumes
WellFormedProc(t, p) ==
    CASE t = "conscs" -> (p.compiled <=> p.o1 # NoOutcome) /\ (~p.compiled => p.log = NoLog)
      [] t = "ecneproject" ->
            (p.o2 # NoOutcome <=> (p.o1.kind = "exit" /\ p.filesFound
                                      /\ RunCommand(exit_codes(t), p.o1).status = "success"))
      [] OTHER -> TRUE

----------------------------------------------------------------------------
\* Parsers (_helper_parse_output) and normalizers (_helper_generate_uniform_results)

AnyLine(bug_info, line) == \E i \in DOMAIN bug_info : bug_info[i] = line

\* --- zkfuzz.py ---

\* "Counter Example" in line (it is a substring of "No Counter Example Found" too)
HasCounterExample(line) ==
    Contains(line, "Counter Example") \/ Contains(line, "No Counter Example Found")

\* re.sub(r"^[^A-Za-z()]*", "", v), then re.sub(r"[^A-Za-z()]*$", "", v)
StripNonLetters(line) ==
    CASE line = <<TIMED_OUT>> -> <<"Timed out">>
      [] StartsWith(line, TIMED_OUT) -> <<"Timed out]">> \o Tail(line)
      [] line = <<"stderr:">> -> <<"stderr">>
      [] line = <<"stdout:">> -> <<"stdout">>
      [] OTHER -> line

\* the first line from index i on that holds "is expected to be", 0 when none
RECURSIVE FirstExpected(_, _, _)
FirstExpected(bug_info, j, last) ==
    IF j > last THEN 0
    ELSE IF Contains(bug_info[j], "is expected to be") THEN j
    ELSE FirstExpected(bug_info, j + 1, last)

\* the first line that decides the result, 0 when none
RECURSIVE ZkFuzzDecidingLine(_, _)
ZkFuzzDecidingLine(bug_info, i) ==
    IF i > Len(bug_info) THEN 0
    ELSE IF Contains(bug_info[i], "No Counter Example Found") THEN i
    ELSE IF HasCounterExample(bug_info[i]) /\ i + 1 <= Len(bug_info) THEN i
    ELSE ZkFuzzDecidingLine(bug_info, i + 1)

ZkFuzzParsed(result, vulnerability, signal, expected_value) ==
    [result |-> result, vulnerability |-> vulnerability, signal |-> signal,
     expected_value |-> expected_value]

\* ZkFuzz._helper_parse_output (the assignments map, metadata only, is left out)
ZkFuzzParse(raw) ==
    LET bug_info == ReadLines(raw)
        i == ZkFuzzDecidingLine(bug_info, 1)
        \* range(i, min(i + 10, len(bug_info))), 0-based, is i..min(i+10, len) here
        j == FirstExpected(bug_info, i,
                           IF i + 10 <= Len(bug_info) THEN i + 9 ELSE Len(bug_info))
        matched == j # 0 /\ Len(bug_info[j]) = 3 /\ bug_info[j][2] = "is expected to be"
    IN  IF bug_info = <<>>
        THEN ZkFuzzParsed("tool error", <<"tool error (no output)">>, "", "")
        ELSE IF AnyLine(bug_info, <<TIMED_OUT>>)
        THEN ZkFuzzParsed("Timed out", <<"Not found">>, "", "")
        ELSE IF AnyLine(bug_info, <<"previous errors were found">>)
        THEN ZkFuzzParsed("previous errors were found", <<"previous errors were found">>,
                          "", "")
        ELSE IF bug_info[Len(bug_info)] # <<"Everything went okay">>
        THEN ZkFuzzParsed("tool error", <<"tool error">>, "", "")
        ELSE IF i = 0
        THEN ZkFuzzParsed("", <<>>, "", "")
        ELSE IF Contains(bug_info[i], "No Counter Example Found")
        THEN ZkFuzzParsed("found_no_bug", <<"No Counter Example Found">>, "", "")
        ELSE ZkFuzzParsed("found_bug", StripNonLetters(bug_info[i + 1]),
                          IF matched THEN bug_info[j][1] ELSE "",
                          IF matched THEN bug_info[j][3] ELSE "")

\* "under" in vulnerability.lower() / "over" in vulnerability.lower()
LowerHasUnder(v) == \E k \in DOMAIN v : v[k] \in {"UnderConstrained", "Under-Constrained"}
LowerHasOver(v) == \E k \in DOMAIN v : v[k] \in {"OverConstrained", "Over-Constrained"}

Finding(bug_title, unified_bug_title, file, position) ==
    [bug_title |-> bug_title, unified_bug_title |-> unified_bug_title, file |-> file,
     position |-> position]

NoPosition == [line |-> 0, component |-> "", signal |-> ""]

\* ZKFUZZ_TO_STANDARD.get(bug_title, UNDER_CONSTRAINED)
ZKFUZZ_TO_STANDARD(bug_title) ==
    CASE bug_title = "Under-Constrained" -> "Under-Constrained"
      [] bug_title = "Over-Constrained" -> "Over-Constrained"
      [] OTHER -> "Under-Constrained"

\* ZkFuzz._helper_generate_uniform_results: [status, findings]
ZkFuzzUniform(parsed) ==
    LET bug_title == IF LowerHasUnder(parsed.vulnerability) THEN "Under-Constrained"
                     ELSE IF LowerHasOver(parsed.vulnerability) THEN "Over-Constrained"
                     ELSE "Under-Constrained"
    IN [status |-> CASE parsed.result = "Timed out" -> "TIMEOUT"
                     [] parsed.result = "found_bug" -> "BUGS_FOUND"
                     [] parsed.result = "found_no_bug" -> "NO_BUGS"
                     [] OTHER -> "ERROR",
        findings |-> IF parsed.result = "found_bug"
                     THEN <<Finding(bug_title, ZKFUZZ_TO_STANDARD(bug_title), "",
                                    [NoPosition EXCEPT !.signal = parsed.signal])>>
                     ELSE <<>>]

\* --- conscs.py ---

\* result_text.rstrip("!")
RStripBang(text) ==
    CASE text = "UNDER-CONSTRAINED!" -> "UNDER-CONSTRAINED"
      [] text = "CONSTRAINED!" -> "CONSTRAINED"
      [] text = "!" -> ""
      [] OTHER -> text

\* float(text), -1 for ValueError
FloatOf(text) ==
    CASE text = "0" -> 0 [] text = "1" -> 1 [] text = "2" -> 2 [] OTHER -> -1

\* the inner while loop: scan the block that starts after a "** filename:" line
RECURSIVE ConsCSBlock(_, _, _)
ConsCSBlock(lines, j, acc) ==
    IF j > Len(lines) THEN [acc EXCEPT !.j = j]
    ELSE LET next_line == lines[j]
         IN  IF StartsWith(next_line, "** filename:") THEN [acc EXCEPT !.j = j]
             ELSE IF StartsWith(next_line, "** result:")
             THEN ConsCSBlock(lines, j + 1,
                              [acc EXCEPT !.result_type = RStripBang(Rest(next_line))])
             ELSE IF StartsWith(next_line, "** time:")
             THEN ConsCSBlock(lines, j + 1,
                     IF FloatOf(Rest(next_line)) >= 0
                     THEN [acc EXCEPT !.exec_time = FloatOf(Rest(next_line)),
                                      !.total_time = @ + FloatOf(Rest(next_line))]
                     ELSE [acc EXCEPT !.exec_time = -1])
             ELSE IF StartsWith(next_line, "** counterexample:")
             THEN ConsCSBlock(lines, j + 1, [acc EXCEPT !.counterexample = Rest(next_line)])
             ELSE IF StartsWith(next_line, "** contribution counts:")
                     \/ StartsWith(next_line, "******")
             THEN [acc EXCEPT !.j = j]
             ELSE ConsCSBlock(lines, j + 1, acc)

\* the outer while loop: [findings, total_time]
RECURSIVE ConsCSScan(_, _, _)
ConsCSScan(lines, i, st) ==
    IF i > Len(lines) THEN st
    ELSE IF StartsWith(lines[i], "** filename:")
    THEN LET b == ConsCSBlock(lines, i + 1,
                     [j |-> i + 1, result_type |-> "", exec_time |-> -1,
                      counterexample |-> "", total_time |-> st.total_time])
             finding == [file |-> Rest(lines[i]), type |-> b.result_type,
                         time |-> b.exec_time, counter_example |-> b.counterexample]
         IN ConsCSScan(lines, b.j,
                [findings |-> IF b.result_type # "" /\ b.result_type # "CONSTRAINED"
                              THEN Append(st.findings, finding)
                              ELSE st.findings,
                 total_time |-> b.total_time])
    ELSE ConsCSScan(lines, i + 1, st)

\* "[Timed out]" in content
ContentHasTimedOut(raw) == \E i \in DOMAIN raw : Contains(raw[i], TIMED_OUT)

\* ConsCS._helper_parse_output; file is raw.txt: [exists, readable, content]
ConsCSParse(file) ==
    IF ~file.exists
    THEN [status |-> "success", execution_time |-> 0, findings |-> <<>>]
    ELSE IF ~file.readable
    THEN [status |-> "error", execution_time |-> 0, findings |-> <<>>]
    ELSE IF ContentHasTimedOut(file.content)
    THEN [status |-> "timeout", execution_time |-> 0, findings |-> <<>>]
    ELSE LET r == ConsCSScan(file.content, 1, [findings |-> <<>>, total_time |-> 0])
         IN [status |-> "success", execution_time |-> r.total_time,
             findings |-> r.findings]

\* "UNDER" in type.upper(), "OVER" in ..., "NOT SURE" in ...
ConsCSUnified(type) ==
    CASE type \in {"UNDER-CONSTRAINED", "UNDER-CONSTRAINED!"} ->
            [unified |-> "Under-Constrained", bug_title |-> "UnderConstrained"]
      [] type \in {"OVER-CONSTRAINED", "OVER-CONSTRAINED!"} ->
            [unified |-> "Over-Constrained", bug_title |-> "OverConstrained"]
      [] type = "NOT SURE" ->
            [unified |-> "Warning (Other -- probably not a bug)", bug_title |-> "NotSure"]
      [] OTHER ->
            [unified |-> "Warning (Other -- probably not a bug)", bug_title |-> "Other"]

\* ConsCS._helper_generate_uniform_results: [status, findings]
ConsCSUniform(parsed) ==
    [status |-> IF parsed.status = "timeout" THEN "TIMEOUT"
                ELSE IF parsed.findings # <<>> THEN "BUGS_FOUND"
                ELSE "NO_BUGS",
     findings |-> [k \in DOMAIN parsed.findings |->
                     Finding(ConsCSUnified(parsed.findings[k].type).bug_title,
                             ConsCSUnified(parsed.findings[k].type).unified,
                             parsed.findings[k].file, NoPosition)]]

\* --- picus.py ---

\* d[name] = value on a dict kept as a sequence of (name, value) in insertion order
DictSet(d, name, value) ==
    IF \E k \in DOMAIN d : d[k].name = name
    THEN [k \in DOMAIN d |-> IF d[k].name = name THEN [name |-> name, value |-> value]
                             ELSE d[k]]
    ELSE Append(d, [name |-> name, value |-> value])

DictHas(d, name) == \E k \in DOMAIN d : d[k].name = name

DictGet(d, name) == d[CHOOSE k \in DOMAIN d : d[k].name = name].value

\* ":" in line and not line.endswith(":"), then rsplit(":", 1): "name: value"
IsAssignment(line) == Len(line) = 3 /\ line[2] = ":"

\* the section loop of Picus._helper_parse_output
RECURSIVE PicusSections(_, _, _)
PicusSections(bug_info, i, st) ==
    IF i > Len(bug_info) THEN st
    ELSE LET line == bug_info[i]
         IN  IF line = <<"inputs:">>
             THEN PicusSections(bug_info, i + 1, [st EXCEPT !.section = "inputs"])
             ELSE IF line = <<"first possible outputs:">>
             THEN PicusSections(bug_info, i + 1, [st EXCEPT !.section = "first"])
             ELSE IF line = <<"second possible outputs:">>
             THEN PicusSections(bug_info, i + 1, [st EXCEPT !.section = "second"])
             ELSE IF StartsWith(line, "first internal variables:")
                     \/ StartsWith(line, "second internal variables:")
             THEN st
             ELSE IF ~IsAssignment(line) THEN PicusSections(bug_info, i + 1, st)
             ELSE PicusSections(bug_info, i + 1,
                     CASE st.section = "inputs" ->
                             [st EXCEPT !.inputs = DictSet(@, line[1], line[3])]
                       [] st.section = "first" ->
                             [st EXCEPT !.first_outputs = DictSet(@, line[1], line[3])]
                       [] st.section = "second" ->
                             [st EXCEPT !.second_outputs = DictSet(@, line[1], line[3])]
                       [] OTHER -> st)

\* signal_name.rsplit(".", 1): template ("None" without a dot) and signal
SplitSignal(name) ==
    CASE name = "main.c" -> [template |-> "main", signal |-> "c"]
      [] name = "main.sub.d" -> [template |-> "main.sub", signal |-> "d"]
      [] OTHER -> [template |-> "None", signal |-> name]

\* "Find signals with different values": first_outputs in order, from index k on
RECURSIVE PicusDiffering(_, _, _)
PicusDiffering(first_outputs, second_outputs, k) ==
    IF k > Len(first_outputs) THEN <<>>
    ELSE LET name == first_outputs[k].name
             differs == DictHas(second_outputs, name)
                           /\ first_outputs[k].value # DictGet(second_outputs, name)
         IN (IF differs
             THEN <<[name |-> name, first_value |-> first_outputs[k].value,
                     second_value |-> DictGet(second_outputs, name),
                     template |-> SplitSignal(name).template]>>
             ELSE <<>>)
            \o PicusDiffering(first_outputs, second_outputs, k + 1)

\* the status chain of Picus._helper_parse_output
PicusStatus(bug_info) ==
    IF bug_info = <<>> THEN "No result"
    ELSE IF AnyLine(bug_info, <<TIMED_OUT>>) THEN "Timed out"
    ELSE IF AnyLine(bug_info, <<"[Circuit file not found]">>)
    THEN "Circuit file not found"
    ELSE IF AnyLine(bug_info, <<"The circuit is underconstrained">>)
    THEN "Underconstrained"
    ELSE IF AnyLine(bug_info, <<"The circuit is properly constrained">>)
    THEN "Properly Constrained"
    ELSE IF AnyLine(bug_info,
                    <<"Cannot determine whether the circuit is properly constrained">>)
    THEN "Tool cannot determine whether the circuit is properly constrained"
    ELSE "Tool Error"

\* Mutant: the parser starts inside the inputs section
PicusParseInInputs(raw) ==
    LET bug_info == ReadLines(raw)
        status == PicusStatus(bug_info)
        st == IF status = "Underconstrained"
              THEN PicusSections(bug_info, 1,
                       [section |-> "inputs", inputs |-> <<>>, first_outputs |-> <<>>,
                        second_outputs |-> <<>>])
              ELSE [section |-> "None", inputs |-> <<>>, first_outputs |-> <<>>,
                    second_outputs |-> <<>>]
    IN [result |-> status,
        signals_with_multiple_values |->
            PicusDiffering(st.first_outputs, st.second_outputs, 1),
        inputs |-> st.inputs,
        first_outputs |-> st.first_outputs,
        second_outputs |-> st.second_outputs]

\* Picus._helper_parse_output
PicusParse(raw) ==
    LET bug_info == ReadLines(raw)
        status == PicusStatus(bug_info)
        st == IF status = "Underconstrained"
              THEN PicusSections(bug_info, 1,
                       [section |-> "None", inputs |-> <<>>, first_outputs |-> <<>>,
                        second_outputs |-> <<>>])
              ELSE [section |-> "None", inputs |-> <<>>, first_outputs |-> <<>>,
                    second_outputs |-> <<>>]
    IN [result |-> status,
        signals_with_multiple_values |->
            PicusDiffering(st.first_outputs, st.second_outputs, 1),
        inputs |-> st.inputs,
        first_outputs |-> st.first_outputs,
        second_outputs |-> st.second_outputs]

\* the findings of Picus.generate_uniform_results (the keyword arguments given to
\* UniformFinding)
PicusUniform(parsed) ==
    [k \in DOMAIN parsed.signals_with_multiple_values |->
        [bug_type |-> "Under-Constrained",
         signal |-> SplitSignal(parsed.signals_with_multiple_values[k].name).signal,
         template |-> parsed.signals_with_multiple_values[k].template]]

\* --- ecneproject.py ---

UNSOUND == "R1CS function circuit has potentially unsound constraints"
SOUND == "R1CS function circuit has sound constraints (No trusted functions needed!)"

\* the first sentinel line decides: index of the first line equal to one of them
RECURSIVE EcneSentinel(_, _)
EcneSentinel(bug_info, i) ==
    IF i > Len(bug_info) THEN "No result"
    ELSE IF bug_info[i] = <<TIMED_OUT>> THEN "Timed out"
    ELSE IF bug_info[i] = <<"[Circuit file not found]">> THEN "Circuit file not found"
    ELSE EcneSentinel(bug_info, i + 1)

\* the first line with the unsound or the sound message
RECURSIVE EcneMessage(_, _)
EcneMessage(bug_info, i) ==
    IF i > Len(bug_info) THEN [result |-> "No result", constraint_status |-> "None"]
    ELSE IF Contains(bug_info[i], UNSOUND)
    THEN [result |-> UNSOUND, constraint_status |-> "unsound"]
    ELSE IF Contains(bug_info[i], SOUND)
    THEN [result |-> SOUND, constraint_status |-> "sound"]
    ELSE EcneMessage(bug_info, i + 1)

\* the legacy heuristic: the line two lines before the first "stderr:" at index >= 2
RECURSIVE EcneLegacy(_, _)
EcneLegacy(bug_info, i) ==
    IF i > Len(bug_info) THEN <<"No result">>
    ELSE IF bug_info[i] = <<"stderr:">> /\ i >= 3 THEN bug_info[i - 2]
    ELSE EcneLegacy(bug_info, i + 1)

\* EcneProject._helper_parse_output; result is a line
EcneParse(raw) ==
    LET bug_info == ReadLines(raw)
        sentinel == EcneSentinel(bug_info, 1)
        message == EcneMessage(bug_info, 1)
    IN  IF sentinel # "No result"
        THEN [result |-> <<sentinel>>, constraint_status |-> "None"]
        ELSE IF message.result # "No result"
        THEN [result |-> <<message.result>>, constraint_status |-> message.constraint_status]
        ELSE [result |-> EcneLegacy(bug_info, 1), constraint_status |-> "None"]

\* --- circomspect.py ---

\* CS_MAPPING.get(code): "None" for a code outside the table
CS_MAPPING(code) ==
    CASE code = "CS0001" -> "ShadowingVariable"
      [] code = "CS0005" -> "SignalAssignmentStatement"
      [] code \in {"CS0014", "CS0015", "CS0017", "CA01"} -> "Under-Constrained"
      [] OTHER -> "None"

\* the lines of a circomspect report:
\*   <<"circomspect: analyzing template", X>>   the marker of template X
\*   <<"warning", code>>                        warning[code]: message
\*   <<file, ":", line, ":", column>>           the location under a warning
\*   <<line, "|">>                              the numbered line of the code snippet
IsLocation(line) ==
    Len(line) = 5 /\ line[2] = ":" /\ line[4] = ":" /\ line[3] \in {"1", "2", "3"}

\* int(match_location.group(2))
IntOf(digits) == CASE digits = "1" -> 1 [] digits = "2" -> 2 [] digits = "3" -> 3

\* the for loop of Circomspect._helper_parse_output; st = [template, code, issues]
RECURSIVE CircomspectScan(_, _, _)
CircomspectScan(bug_info, i, st) ==
    IF i > Len(bug_info) THEN st.issues
    ELSE LET line == bug_info[i]
             current_template ==
                 IF Len(line) >= 2 /\ line[1] = "template:" THEN line[2] ELSE st.template
             current_code ==
                 IF Len(line) >= 2 /\ line[1] \in {"warning", "note", "error"}
                 THEN line[2] ELSE st.code
             located == /\ current_code # "None"
                        /\ i + 1 <= Len(bug_info)
                        /\ IsLocation(bug_info[i + 1])
             issue == [code |-> current_code,
                       name |-> IF CS_MAPPING(current_code) = "None" THEN current_code
                                ELSE CS_MAPPING(current_code),
                       line |-> IntOf(bug_info[i + 1][3]),
                       template |-> current_template]
         IN CircomspectScan(bug_info, i + 1,
                [template |-> current_template,
                 code |-> IF located THEN "None" ELSE current_code,
                 issues |-> IF located THEN Append(st.issues, issue) ELSE st.issues])

\* Circomspect._helper_parse_output: the status and the issues of the parsed record
CircomspectParse(raw) ==
    LET bug_info == ReadLines(raw)
    IN IF AnyLine(bug_info, <<TIMED_OUT>>) THEN [status |-> "timeout", issues |-> <<>>]
       ELSE [status |-> "success",
             issues |-> CircomspectScan(bug_info, 1,
                            [template |-> "None", code |-> "None", issues |-> <<>>])]

\* --- src/zksec/tools/circom/circomspect.py (the parser src/main.py evaluate_mode calls
\* with the ground truth) ---

\* the first for loop of parse_output: the block of vuln_function;
\* st = [inside_block, block, timed_out]
RECURSIVE LegacyBlock(_, _, _, _)
LegacyBlock(bug_info, i, vuln_function, st) ==
    IF i > Len(bug_info) THEN st
    ELSE LET line == bug_info[i]
         IN  IF line = <<TIMED_OUT>> THEN [st EXCEPT !.timed_out = TRUE]
             ELSE IF line[1] \in {"circomspect: analyzing function",
                                  "circomspect: analyzing template"}
             THEN IF st.inside_block THEN st
                  ELSE IF Len(line) = 2 /\ line[2] = vuln_function
                  THEN LegacyBlock(bug_info, i + 1, vuln_function,
                           [st EXCEPT !.inside_block = TRUE, !.block = Append(@, line)])
                  ELSE LegacyBlock(bug_info, i + 1, vuln_function, st)
             ELSE IF st.inside_block
             THEN LegacyBlock(bug_info, i + 1, vuln_function,
                      [st EXCEPT !.block = Append(@, line)])
             ELSE LegacyBlock(bug_info, i + 1, vuln_function, st)

\* the second for loop of parse_output: the (code, line) pairs of the block
RECURSIVE LegacyWarnings(_, _, _)
LegacyWarnings(block, k, current_code) ==
    IF k > Len(block) THEN <<>>
    ELSE LET line == block[k]
             code == IF Len(line) >= 2 /\ line[1] = "warning" THEN line[2]
                     ELSE current_code
             match_line == Len(line) = 2 /\ line[2] = "|" /\ line[1] \in {"1", "2", "3"}
         IN IF code # "None" /\ match_line
            THEN <<[code |-> code, line |-> IntOf(line[1])]>>
                     \o LegacyWarnings(block, k + 1, "None")
            ELSE LegacyWarnings(block, k + 1, code)

\* parse_output(tool_result_raw, ..., ground_truth): the "warnings" value
LegacyParseOutput(raw, vuln_function) ==
    LET bug_info == ReadLines(raw)
        st == LegacyBlock(bug_info, 1, vuln_function,
                          [inside_block |-> FALSE, block |-> <<>>, timed_out |-> FALSE])
        warnings == (IF st.timed_out
                     THEN <<[code |-> "Reached zksec threshold.", line |-> 0]>> ELSE <<>>)
                    \o LegacyWarnings(st.block, 1, "None")
    IN  IF vuln_function = "None" THEN [status |-> "legacy", warnings |-> <<>>]
        ELSE [status |-> "legacy", warnings |-> warnings]

\* --- circom_civer.py ---

ComponentNames == {"Foo", "Bar"}

\* int(m.group(1)) for r"(\d+)$", -1 when the line does not end in digits
TrailingInt(line) ==
    LET last == line[Len(line)]
    IN CASE last = "0" -> 0 [] last = "1" -> 1 [] last = "2" -> 2 [] OTHER -> -1

CiverHeaders ==
    [buggy |-> "Components that do not satisfy weak safety",
     timeout |-> "Components timeout when checking weak-safety",
     verified |-> "Components that satisfy weak safety",
     failed |-> "Components that failed verification"]

\* the for loop of CircomCiver._helper_parse_output
RECURSIVE CiverScan(_, _, _)
CiverScan(bug_info, i, st) ==
    IF i > Len(bug_info) THEN st
    ELSE LET line == bug_info[i]
             is_component == StartsWith(line, "-") /\ Len(line) >= 2
                                /\ line[2] \in ComponentNames
             component == [name |-> line[2], params |-> SubSeq(line, 3, Len(line))]
             with_component ==
                 IF ~is_component THEN st
                 ELSE CASE st.context = "buggy" ->
                              [st EXCEPT !.buggy_components = Append(@, component)]
                        [] st.context = "timeout" ->
                              [st EXCEPT !.timed_out_components = Append(@, component)]
                        [] st.context = "verified" ->
                              [st EXCEPT !.verified_components = Append(@, component)]
                        [] OTHER -> st
             with_stats ==
                 CASE Contains(line, "Number of verified components") ->
                         [with_component EXCEPT !.stats.verified = TrailingInt(line)]
                   [] Contains(line, "Number of failed components") ->
                         [with_component EXCEPT !.stats.failed = TrailingInt(line)]
                   [] Contains(line, "Number of timeout components") ->
                         [with_component EXCEPT !.stats.timeout = TrailingInt(line)]
                   [] OTHER -> with_component
         IN  IF line = <<TIMED_OUT>>
             THEN CiverScan(bug_info, i + 1, [st EXCEPT !.context = "timeout"])
             ELSE IF StartsWith(line, CiverHeaders.buggy)
             THEN CiverScan(bug_info, i + 1, [st EXCEPT !.context = "buggy"])
             ELSE IF StartsWith(line, CiverHeaders.timeout)
             THEN CiverScan(bug_info, i + 1, [st EXCEPT !.context = "timeout"])
             ELSE IF StartsWith(line, CiverHeaders.verified)
             THEN CiverScan(bug_info, i + 1, [st EXCEPT !.context = "verified"])
             ELSE IF StartsWith(line, CiverHeaders.failed)
             THEN CiverScan(bug_info, i + 1, [st EXCEPT !.context = "failed"])
             ELSE IF line = <<>>
             THEN CiverScan(bug_info, i + 1, [st EXCEPT !.context = "None"])
             ELSE CiverScan(bug_info, i + 1, with_stats)

\* CircomCiver._helper_parse_output (a stat of -1 is None)
CiverParse(raw) ==
    LET st == CiverScan(ReadLines(raw), 1,
                  [context |-> "None",
                   stats |-> [verified |-> -1, failed |-> -1, timeout |-> -1],
                   buggy_components |-> <<>>, timed_out_components |-> <<>>,
                   verified_components |-> <<>>])
    IN [stats |-> st.stats, buggy_components |-> st.buggy_components,
        timed_out_components |-> st.timed_out_components,
        verified_components |-> st.verified_components]

\* the overall status of CircomCiver._helper_generate_uniform_results
CiverStatus(parsed) ==
    IF parsed.buggy_components # <<>> THEN "bugs_found"
    ELSE IF parsed.stats.timeout > 0 THEN "timeout"
    ELSE "success"

NoFile == [exists |-> FALSE, readable |-> FALSE, content |-> <<>>]
NoParsed == [status |-> "none"]
NoResult == [status |-> "none"]
NoGt == [vulnerability |-> "none"]
NoData == [kind |-> "none"]
NoEval == [result |-> "none"]
NoBatch == [at |-> "none"]

\* AbstractTool.execute: run the adapter, write raw.txt, return the ToolOutput
Execute ==
    /\ pc = "not_started"
    /\ \E p \in Procs(tool) :
          /\ WellFormedProc(tool, p)
          /\ LET r == InternalExecute(tool, p, cwd)
             IN /\ proc' = p
                /\ runs' = r.runs
                /\ cwd' = r.cwd
                /\ toolOutput' = r.out
                /\ IF r.out.status = "raised"
                   THEN pc' = "execute_raised" /\ rawFile' = rawFile
                   ELSE pc' = "executed"
                        /\ rawFile' = [exists |-> TRUE, readable |-> TRUE,
                                        content |-> r.out.msg]
    /\ UNCHANGED <<tool, parsedOut, analysis, toolResult, gt, toolData, evaluation, batch>>

NoError == [set |-> FALSE, text |-> <<>>]

ToolResult(status, message, findings, error, results_file) ==
    [status |-> status, message |-> message, findings |-> findings, error |-> error,
     results_file |-> results_file]

\* the adapters whose _helper_generate_uniform_results returns (AnalysisStatus, findings).
\* Of the six adapter classes only ConsCS overrides every abstract method of AbstractTool;
\* the other five are modelled by their methods as written.
Normalizing == {"conscs", "zkfuzz"}

\* _helper_parse_output of adapter t on raw.txt
Parse(t, file) ==
    CASE t = "conscs" -> ConsCSParse(file)
      [] t = "zkfuzz" -> ZkFuzzParse(file.content)
      [] t = "picus" -> PicusParse(file.content)
      [] t = "ecneproject" -> EcneParse(file.content)
      [] t = "circomspect" -> CircomspectParse(file.content)
      [] t = "circom_civer" -> CiverParse(file.content)

\* _helper_generate_uniform_results of adapter t
Uniform(t, parsed) ==
    IF t = "conscs" THEN ConsCSUniform(parsed) ELSE ZkFuzzUniform(parsed)

\* no parser and no normalizer of the adapters raises ToolError
RaisesToolError(t, file) == FALSE

\* Mutant: an analysis without bugs is reported as a timeout
MapAnalysisStatusNoBugs(analysis_status) ==
    CASE analysis_status \in {"TIMEOUT", "NO_BUGS"} -> "timeout"
      [] analysis_status = "ERROR" -> "failed"
      [] OTHER -> "success"

\* "Map AnalysisStatus to ToolStatus"
MapAnalysisStatus(analysis_status) ==
    CASE analysis_status = "TIMEOUT" -> "timeout"
      [] analysis_status = "ERROR" -> "failed"
      [] OTHER -> "success"

\* AbstractTool.process_output
ProcessOutput ==
    /\ pc = "executed"
    /\ IF toolOutput.status = "timeout"
       THEN /\ toolResult' = ToolResult("timeout", toolOutput.msg, <<>>, NoError, FALSE)
            /\ pc' = "processed"
            /\ UNCHANGED <<parsedOut, analysis>>
       ELSE IF toolOutput.status = "fail"
       THEN /\ toolResult' = ToolResult("failed", toolOutput.msg, <<>>,
                                        [set |-> TRUE, text |-> toolOutput.msg], FALSE)
            /\ pc' = "processed"
            /\ UNCHANGED <<parsedOut, analysis>>
       ELSE IF RaisesToolError(tool, rawFile)
       THEN /\ toolResult' = ToolResult("failed", toolOutput.msg, <<>>,
                                        [set |-> TRUE, text |-> <<(<<"ToolError">>)>>],
                                        FALSE)
            /\ pc' = "processed"
            /\ UNCHANGED <<parsedOut, analysis>>
       ELSE IF tool \in Normalizing
       THEN LET parsed == Parse(tool, rawFile)
                u == Uniform(tool, parsed)
            IN /\ parsedOut' = parsed
               /\ analysis' = u.status
               /\ toolResult' = ToolResult(MapAnalysisStatus(u.status), toolOutput.msg,
                                           u.findings, NoError, TRUE)
               /\ pc' = "processed"
       ELSE \* parsed.json is written, then unpacking the normalizer's value raises,
            \* which "except Exception" raises again
            /\ parsedOut' = Parse(tool, rawFile)
            /\ pc' = "process_raised"
            /\ UNCHANGED <<analysis, toolResult>>
    /\ UNCHANGED <<tool, proc, runs, cwd, toolOutput, rawFile, gt, toolData, evaluation,
                   batch>>

Init ==
    /\ pc = "not_started"
    /\ tool \in Tools
    /\ proc = NoProc
    /\ runs = <<>>
    /\ cwd = "base"
    /\ toolOutput = NoOutput
    /\ rawFile = NoFile
    /\ parsedOut = NoParsed
    /\ analysis = "none"
    /\ toolResult = NoResult
    /\ gt = NoGt
    /\ toolData = NoData
    /\ evaluation = NoEval
    /\ batch = NoBatch

Next == Execute \/ ProcessOutput

Spec == Init /\ [][Next]_vars

----------------------------------------------------------------------------
\* ParseSpec: _helper_parse_output of each adapter on a raw text

\* lines of a raw.txt, per adapter
ParseLines(t) ==
    {<<TIMED_OUT>>, <<TIMED_OUT, "partial">>, <<>>} \cup
    CASE t = "zkfuzz" -> ZkFuzzLines
      [] t = "conscs" -> ConsCSLines
      [] t = "picus" ->
            { <<"The circuit is underconstrained">>,
              <<"The circuit is properly constrained">>, <<"[Circuit file not found]">> }
      [] t = "ecneproject" ->
            { <<UNSOUND>>, <<SOUND>>, <<"[Circuit file not found]">>, <<"stderr:">> }
      [] t = "circom_civer" ->
            { <<CiverHeaders.buggy, ":">>, <<"-", "Foo">>,
              <<"Number of timeout components", "1">> }
      [] OTHER -> { <<"output">> }

\* the run is classified as a timeout by adapter t (circom_civer's parsed record
\* holds no status: its normalizer computes one)
ClassifiedTimeout(t, parsed) ==
    CASE t = "zkfuzz" -> parsed.result = "Timed out"
      [] t = "picus" -> parsed.result = "Timed out"
      [] t = "ecneproject" -> parsed.result = <<"Timed out">>
      [] t = "conscs" -> parsed.status = "timeout"
      [] t = "circomspect" -> parsed.status = "timeout"
      [] t = "circom_civer" -> CiverStatus(parsed) = "timeout"

MaxSignals == 2
MaxBlocks == 2
MaxReportLines == 4

\* "name: value" lines of a Picus counterexample
PicusAssignments == { <<name, ":", value>> : name \in {"main.c", "out"}, value \in {"0", "1"} }

\* a Picus report of an underconstrained circuit with the two possible outputs
PicusCounterexamples ==
    { <<(<<"The circuit is underconstrained">>), <<"first possible outputs:">>>>
        \o first \o <<(<<"second possible outputs:">>)>> \o second :
      first \in TextsUpTo(PicusAssignments, MaxSignals),
      second \in TextsUpTo(PicusAssignments, MaxSignals) }

\* the lines of the counterexample part of a Picus report
PicusReportLines ==
    { <<"inputs:">>, <<"first possible outputs:">>, <<"second possible outputs:">>,
      <<"first internal variables:">>, <<"main.c", ":", "0">>, <<"main.c", ":", "1">> }

\* Picus reports of an underconstrained circuit, the counterexample lines in any order
PicusReports ==
    { <<(<<"The circuit is underconstrained">>)>> \o t :
        t \in TextsUpTo(PicusReportLines, MaxReportLines) }

\* the block circomspect prints for one warning of template X
CircomspectBlocks ==
    { << <<"circomspect: analyzing template", X>>, <<"warning", code>>,
         <<"circuit.circom", ":", line, ":", "1">>, <<line, "|">> >> :
      X \in ComponentNames, code \in {"CS0014", "CS0001"}, line \in {"1", "2"} }

\* circomspect reports of up to MaxBlocks blocks
RECURSIVE CircomspectReports(_)
CircomspectReports(n) ==
    IF n = 0 THEN {<<>>}
    ELSE CircomspectReports(n - 1)
         \cup { report \o block : report \in CircomspectReports(n - 1),
                                  block \in CircomspectBlocks }

\* circom-civer reports: a section header, a blank or a statistics line, a component
CiverReports ==
    { << <<CiverHeaders[h], ":">>, middle, <<"-", name>> >> :
        h \in {"buggy", "timeout", "verified"},
        middle \in {<<>>, <<"Number of timeout components", "1">>},
        name \in ComponentNames }

ParseInit ==
    /\ pc = "raw"
    /\ tool \in Tools
    /\ rawFile \in [exists : {TRUE}, readable : {TRUE},
                    content : TextsUpTo(ParseLines(tool), MaxOutLines)
                              \cup (IF tool = "picus"
                                    THEN PicusCounterexamples \cup PicusReports ELSE {})
                              \cup (IF tool = "circomspect" THEN CircomspectReports(MaxBlocks)
                                    ELSE {})
                              \cup (IF tool = "circom_civer" THEN CiverReports ELSE {})]
    /\ proc = NoProc
    /\ runs = <<>>
    /\ cwd = "base"
    /\ toolOutput = NoOutput
    /\ parsedOut = NoParsed
    /\ analysis = "none"
    /\ toolResult = NoResult
    /\ gt = NoGt
    /\ toolData = NoData
    /\ evaluation = NoEval
    /\ batch = NoBatch

ParseBy(t) ==
    /\ pc = "raw"
    /\ tool = t
    /\ parsedOut' = Parse(t, rawFile)
    /\ pc' = "parsed"
    /\ UNCHANGED <<tool, proc, runs, cwd, toolOutput, rawFile, analysis, toolResult, gt,
                   toolData, evaluation, batch>>

\* src/main.py evaluate_mode: tool_module.parse_output(raw_output_file, ground_truth_file)
\* for a ground truth whose Location.Function is vuln_function ("None": no function)
ParseLegacyCircomspect ==
    /\ pc = "raw"
    /\ tool = "circomspect"
    /\ \E vuln_function \in ComponentNames \cup {"None"} :
          /\ parsedOut' = LegacyParseOutput(rawFile.content, vuln_function)
          /\ gt' = [vulnerability |-> "none", Function |-> vuln_function]
    /\ pc' = "legacy_parsed"
    /\ UNCHANGED <<tool, proc, runs, cwd, toolOutput, rawFile, analysis, toolResult,
                   toolData, evaluation, batch>>

ParseCircomspect == ParseBy("circomspect")
ParseCiver == ParseBy("circom_civer")
ParsePicus == ParseBy("picus")
ParseEcne == ParseBy("ecneproject")
ParseZkFuzz == ParseBy("zkfuzz")
ParseConsCS == ParseBy("conscs")

ParseNext ==
    \/ ParseCircomspect
    \/ ParseLegacyCircomspect
    \/ ParseCiver
    \/ ParsePicus
    \/ ParseEcne
    \/ ParseZkFuzz
    \/ ParseConsCS

ParseSpec == ParseInit /\ [][ParseNext]_vars

----------------------------------------------------------------------------
\* EvalSpec: the ground-truth evaluators as functions of (ground truth, tool data)

MaxLine == 3
MaxFindings == 2

\* str.lower() on the strings the evaluators compare
Lower(s) ==
    CASE s = "Under-Constrained" -> "under-constrained"
      [] s = "Over-Constrained" -> "over-constrained"
      [] s = "Computational-Issue" -> "computational-issue"
      [] s = "Warning (Other -- probably not a bug)" ->
            "warning (other -- probably not a bug)"
      [] s = "ShadowingVariable" -> "shadowingvariable"
      [] s = "SignalAssignmentStatement" -> "signalassignmentstatement"
      [] s = "Under" -> "under"
      [] s = "Over" -> "over"
      [] s = "Constrained" -> "constrained"
      [] OTHER -> s

\* the "Line" of a ground-truth location: absent, "a", "a-b", or not a number
NoLine == [kind |-> "none", a |-> 0, b |-> 0]
GtLines ==
    {NoLine, [kind |-> "malformed", a |-> 0, b |-> 0]}
    \cup [kind : {"single"}, a : 1..MaxLine, b : {0}]
    \cup [kind : {"range"}, a : 1..MaxLine, b : 1..MaxLine]

NoLocation == [present |-> FALSE, Function |-> "None", Line |-> NoLine]
GtLocations ==
    {NoLocation} \cup [present : {TRUE}, Function : {"None", "Foo"}, Line : GtLines]

\* a ground-truth file: vulnerability and location ("None" is a missing key). ConsCS reads
\* the key "vulnerability", the compare_ methods read "Vulnerability" and "Location"; the
\* record holds, for each evaluator, the value under the key that evaluator reads.
GroundTruths ==
    [vulnerability : {"None", "Under-Constrained", "under-constrained", "Over-Constrained"},
     location : GtLocations]

Verdict(result, manual) == [result |-> result, manual |-> manual]

\* Mutant: only the first finding is compared with the ground truth
ConsCSEvaluateFirstOnly(g, findings) ==
    IF findings = <<>> THEN [result |-> "FalseNegative", manual |-> "false"]
    ELSE IF g.vulnerability # "None"
            /\ Lower(findings[1].unified_bug_title) = Lower(g.vulnerability)
    THEN [result |-> "TruePositive", manual |-> "false"]
    ELSE [result |-> "Undecided", manual |-> "true"]

\* ConsCS.evaluate_zkbugs_ground_truth
ConsCSEvaluate(g, findings) ==
    IF findings = <<>> THEN Verdict("FalseNegative", "false")
    ELSE IF g.vulnerability # "None"
            /\ \E k \in DOMAIN findings :
                  Lower(findings[k].unified_bug_title) = Lower(g.vulnerability)
    THEN Verdict("TruePositive", "false")
    ELSE Verdict("Undecided", "true")

\* the for loop of Circomspect.compare_zkbugs_ground_truth
RECURSIVE CircomspectLoop(_, _, _, _, _, _)
CircomspectLoop(warnings, k, gt_vulnerability, gt_startline, gt_endline, acc) ==
    IF k > Len(warnings) THEN acc
    ELSE LET warning == warnings[k]
             tool_vulnerability == CS_MAPPING(warning.code)
             next ==
                 IF ~warning.wellformed THEN acc
                 ELSE IF tool_vulnerability = "None" THEN acc
                 ELSE IF Lower(tool_vulnerability) = Lower(gt_vulnerability)
                 THEN IF gt_startline <= warning.line /\ warning.line <= gt_endline
                      THEN [acc EXCEPT !.is_correct = TRUE]
                      ELSE [acc EXCEPT !.manual_evaluation = TRUE]
                 ELSE acc
         IN CircomspectLoop(warnings, k + 1, gt_vulnerability, gt_startline, gt_endline,
                            next)

\* Circomspect.compare_zkbugs_ground_truth
CircomspectCompare(g, data) ==
    IF data.kind = "none_found" THEN Verdict("false", "absent")
    ELSE IF data.kind = "threshold" THEN Verdict("timeout", "absent")
    ELSE IF data.kind = "none_for_function" THEN Verdict("false", "absent")
    ELSE IF g.vulnerability = "None" \/ g.location.Line.kind = "none"
    THEN Verdict("false", "absent")
    ELSE IF g.location.Line.kind = "malformed" THEN Verdict("raised", "absent")
    ELSE LET gt_startline == g.location.Line.a
             gt_endline == IF g.location.Line.kind = "range" THEN g.location.Line.b
                           ELSE g.location.Line.a
             acc == CircomspectLoop(data.warnings, 1, g.vulnerability, gt_startline,
                        gt_endline, [is_correct |-> FALSE, manual_evaluation |-> FALSE])
         IN IF acc.is_correct THEN Verdict("correct", "absent")
            ELSE IF acc.manual_evaluation THEN Verdict("false", "true")
            ELSE Verdict("false", "absent")

\* the for loop of CircomCiver.compare_zkbugs_ground_truth
RECURSIVE CiverLoop(_, _, _, _)
CiverLoop(buggy_components, k, buggy_function, acc) ==
    IF k > Len(buggy_components) THEN acc
    ELSE IF buggy_components[k].threshold THEN [acc EXCEPT !.timed_out = TRUE]
    ELSE CiverLoop(buggy_components, k + 1, buggy_function,
             [acc EXCEPT !.last_comp_name = buggy_components[k].name,
                         !.is_correct = @ \/ buggy_components[k].name = buggy_function])

\* CircomCiver.compare_zkbugs_ground_truth
CiverCompare(g, data) ==
    IF ~g.location.present THEN Verdict("error", "absent")
    ELSE LET acc == CiverLoop(data.buggy_components, 1, g.location.Function,
                        [is_correct |-> FALSE, timed_out |-> FALSE,
                         last_comp_name |-> "None"])
         IN IF acc.is_correct THEN Verdict("correct", "absent")
            ELSE IF acc.timed_out THEN Verdict("timeout", "absent")
            ELSE Verdict("false", "true")

\* EcneProject.compare_zkbugs_ground_truth (the parsed result is a line)
EcneCompare(g, data) ==
    CASE data.result = <<UNSOUND>> -> Verdict("correct", "absent")
      [] data.result = <<SOUND>> -> Verdict("false", "absent")
      [] data.result = <<"Timed out">> -> Verdict("timeout", "absent")
      [] data.result = <<"Circuit file not found">> -> Verdict("error", "absent")
      [] OTHER -> Verdict("false", "absent")

\* Picus.compare_zkbugs_ground_truth
PicusCompare(g, data) ==
    CASE data.result = "Underconstrained" /\ g.vulnerability = "Under-Constrained" ->
            Verdict("correct", "absent")
      [] data.result = "Timed out" -> Verdict("timeout", "absent")
      [] data.result \in {"Tool Error", "Circuit file not found"} ->
            Verdict("error", "absent")
      [] OTHER -> Verdict("false", "absent")

\* the findings of a results.json written by ConsCS.process_output
ConsCSFindings ==
    { Finding(ConsCSUnified(type).bug_title, ConsCSUnified(type).unified, "main.circom",
              NoPosition) : type \in {"UNDER-CONSTRAINED", "OVER-CONSTRAINED", "NOT SURE"} }

\* a (code, line) pair of Circomspect's parsed warnings, or a pair whose line is missing
\* (int(tool_line_raw) raises and the warning is skipped)
Warnings ==
    [wellformed : {TRUE}, code : {"CS0014", "CS0001", "CS9999"}, line : 1..MaxLine]
    \cup {[wellformed |-> FALSE, code |-> "CS0014", line |-> 0]}

\* an entry of CircomCiver's buggy_components: a component or the threshold marker
Components ==
    [threshold : {FALSE}, name : ComponentNames]
    \cup {[threshold |-> TRUE, name |-> "None"]}

EvalTools == {"conscs", "circomspect", "circom_civer", "ecneproject", "picus"}

\* what the evaluator of tool t reads besides the ground truth
ToolData(t) ==
    CASE t = "conscs" ->
            [kind : {"results"}, findings : TextsUpTo(ConsCSFindings, MaxFindings)]
      [] t = "circomspect" ->
            [kind : {"none_found", "none_for_function", "threshold"}, warnings : {<<>>}]
            \cup [kind : {"list"}, warnings : TextsUpTo(Warnings, MaxFindings)]
      [] t = "circom_civer" ->
            [kind : {"parsed"}, buggy_components : TextsUpTo(Components, MaxFindings)]
      [] t = "ecneproject" ->
            [kind : {"parsed"},
             result : { <<UNSOUND>>, <<SOUND>>, <<"Timed out">>,
                        <<"Circuit file not found">>, <<"No result">>, <<"output">> }]
      [] t = "picus" ->
            [kind : {"parsed"},
             result : { "Underconstrained", "Properly Constrained", "Timed out",
                        "Tool Error", "Circuit file not found", "No result",
                        "Tool cannot determine whether the circuit is properly constrained" }]

EvalInit ==
    /\ pc = "to_evaluate"
    /\ tool \in EvalTools
    /\ gt \in GroundTruths
    /\ toolData \in ToolData(tool)
    /\ evaluation = NoEval
    /\ batch = NoBatch
    /\ proc = NoProc
    /\ runs = <<>>
    /\ cwd = "base"
    /\ toolOutput = NoOutput
    /\ rawFile = NoFile
    /\ parsedOut = NoParsed
    /\ analysis = "none"
    /\ toolResult = NoResult

EvaluateBy(t, verdict) ==
    /\ pc = "to_evaluate"
    /\ tool = t
    /\ evaluation' = verdict
    /\ pc' = "evaluated"
    /\ UNCHANGED <<tool, proc, runs, cwd, toolOutput, rawFile, parsedOut, analysis,
                   toolResult, gt, toolData, batch>>

EvaluateConsCS == EvaluateBy("conscs", ConsCSEvaluate(gt, toolData.findings))
CompareCircomspect == EvaluateBy("circomspect", CircomspectCompare(gt, toolData))
CompareCiver == EvaluateBy("circom_civer", CiverCompare(gt, toolData))
CompareEcne == EvaluateBy("ecneproject", EcneCompare(gt, toolData))
ComparePicus == EvaluateBy("picus", PicusCompare(gt, toolData))

EvalNext ==
    \/ EvaluateConsCS
    \/ CompareCircomspect
    \/ CompareCiver
    \/ CompareEcne
    \/ ComparePicus

EvalSpec == EvalInit /\ [][EvalNext]_vars

----------------------------------------------------------------------------
\* Properties of the evaluators (EvalSpec)

LocationPrecise == {"conscs", "circomspect", "circom_civer"}
CircuitLevel == {"ecneproject", "picus"}

\* the findings an evaluator sees, as (unified title, line, component)
FindingsOf(t, data) ==
    CASE t = "conscs" ->
            { [unified |-> data.findings[k].unified_bug_title,
               line |-> data.findings[k].position.line,
               component |-> data.findings[k].position.component]
              : k \in DOMAIN data.findings }
      [] t = "circomspect" ->
            { [unified |-> CS_MAPPING(data.warnings[k].code),
               line |-> data.warnings[k].line, component |-> ""]
              : k \in {j \in DOMAIN data.warnings : data.warnings[j].wellformed} }
      [] t = "circom_civer" ->
            { [unified |-> "Weak-Safety-Violation", line |-> 0,
               component |-> data.buggy_components[k].name]
              : k \in {j \in DOMAIN data.buggy_components :
                          ~data.buggy_components[j].threshold} }
      [] OTHER -> {}

TypeMatches(f, g) ==
    g.vulnerability # "None" /\ Lower(f.unified) = Lower(g.vulnerability)

PositionOverlaps(f, g) ==
    /\ g.location.present
    /\ \/ /\ f.line > 0
          /\ g.location.Line.kind \in {"single", "range"}
          /\ g.location.Line.a <= f.line
          /\ f.line <= (IF g.location.Line.kind = "range" THEN g.location.Line.b
                        ELSE g.location.Line.a)
       \/ f.component # "" /\ f.component = g.location.Function

\* the ground truth names a bug and where it is
GtComplete(g) ==
    /\ g.vulnerability # "None"
    /\ g.location.present
    /\ g.location.Function # "None"
    /\ g.location.Line.kind \in {"single", "range"}

\* the tool data reports that the run reached the time threshold
ReachedThreshold(t, data) ==
    CASE t = "circomspect" -> data.kind = "threshold"
      [] t = "circom_civer" ->
            \E k \in DOMAIN data.buggy_components : data.buggy_components[k].threshold
      [] t = "ecneproject" -> data.result = <<"Timed out">>
      [] t = "picus" -> data.result = "Timed out"
      [] OTHER -> FALSE

\* a circuit-level tool reports that the circuit has a bug
PositiveDetection(t, data) ==
    CASE t = "ecneproject" -> data.result = <<UNSOUND>>
      [] t = "picus" -> data.result = "Underconstrained"
      [] OTHER -> FALSE

\* the tool ran to completion and reported nothing
ZeroFindings(t, data) ==
    CASE t \in LocationPrecise -> FindingsOf(t, data) = {} /\ ~ReachedThreshold(t, data)
      [] t = "ecneproject" -> data.result = <<SOUND>>
      [] t = "picus" -> data.result = "Properly Constrained"

IsTruePositive(v) == v.result \in {"TruePositive", "correct"}
IsFalseNegative(v) == v.result \in {"FalseNegative", "false"}
FlaggedForManual(v) == v.result \in {"Undecided", "false"} /\ v.manual = "true"

\* C1: a TruePositive / correct verdict implies a finding whose unified title equals the
\* ground-truth vulnerability and whose position overlaps the ground-truth location;
\* a type match alone never gives it.
C1_TruePositiveNeedsTypeAndPosition ==
    (pc = "evaluated" /\ tool \in LocationPrecise /\ IsTruePositive(evaluation))
        => \E f \in FindingsOf(tool, toolData) :
              TypeMatches(f, gt) /\ PositionOverlaps(f, gt)

\* C2: a positive detection of a circuit-level tool (Ecne, Picus) is never TruePositive /
\* correct: the verdict is Undecided with the manual-analysis flag set.
C2_CircuitLevelPositiveIsUndecided ==
    (pc = "evaluated" /\ tool \in CircuitLevel /\ PositiveDetection(tool, toolData))
        => ~IsTruePositive(evaluation) /\ FlaggedForManual(evaluation)

\* C3: when a location-precise tool reports findings and none matches the ground truth on
\* both type and position, the verdict is never an automatic FalseNegative / false: it is
\* flagged for manual analysis.
C3_UnmatchedFindingsAreUndecided ==
    (/\ pc = "evaluated"
     /\ tool \in LocationPrecise
     /\ GtComplete(gt)
     /\ ~ReachedThreshold(tool, toolData)
     /\ FindingsOf(tool, toolData) # {}
     /\ ~\E f \in FindingsOf(tool, toolData) :
            TypeMatches(f, gt) /\ PositionOverlaps(f, gt))
        => FlaggedForManual(evaluation)

\* C4: when the tool reports nothing and the ground truth expects a bug, the verdict is
\* FalseNegative / false with the manual-analysis flag false or absent.
C4_NoFindingsIsFalseNegative ==
    (pc = "evaluated" /\ GtComplete(gt) /\ ZeroFindings(tool, toolData))
        => IsFalseNegative(evaluation) /\ evaluation.manual \in {"false", "absent"}

----------------------------------------------------------------------------
\* Properties of the parsers (ParseSpec)

\* C9: a raw output that holds the literal [Timed out] is classified as a timeout by the
\* parser of every tool, also when the sentinel shares its line with other text.
C9_SentinelMeansTimeout ==
    (pc = "parsed" /\ ContentHasTimedOut(rawFile.content))
        => ClassifiedTimeout(tool, parsedOut)

----------------------------------------------------------------------------
\* Properties of one invocation (Spec)

\* raw.txt holds text, and none of it is what the parser of adapter t looks for
Uninterpretable(t, file) ==
    /\ ReadLines(file.content) # <<>>
    /\ ~ContentHasTimedOut(file.content)
    /\ CASE t = "conscs" ->
               ~\E i \in DOMAIN file.content : StartsWith(file.content[i], "** filename:")
         [] t = "zkfuzz" ->
               ZkFuzzParse(file.content).result \notin {"found_bug", "found_no_bug"}
         [] OTHER -> FALSE

\* C5: a raw output the parser cannot interpret, processed after an execution classified
\* Success, gives a Failed ToolResult carrying the error text; it never ends as a
\* ToolResult with status Success and no findings.
C5_UninterpretableIsNotSuccess ==
    (pc = "processed" /\ toolOutput.status = "success" /\ Uninterpretable(tool, rawFile))
        => ~(toolResult.status = "success" /\ toolResult.findings = <<>>)

\* a line equal to the sentinel (ZkFuzz) / the sentinel anywhere in the text (ConsCS)
SentinelSeen(t, file) ==
    IF t = "conscs" THEN ContentHasTimedOut(file.content)
    ELSE AnyLine(ReadLines(file.content), <<TIMED_OUT>>)

\* the failures execute detects before it spawns the analysis process
PreFlightFailed(t, p) ==
    \/ t = "conscs" /\ ~p.compiled
    \/ t = "ecneproject" /\ (RunCommand(exit_codes(t), p.o1).status # "success"
                                \/ ~p.filesFound)

C6_States ==
    /\ pc \in {"not_started", "execute_raised", "executed", "process_raised"}
          => toolResult = NoResult
    /\ (pc \in {"executed", "processed"} /\ PreFlightFailed(tool, proc))
          => toolOutput.status = "fail"
    /\ pc = "processed" =>
          /\ toolOutput.status = "timeout" => toolResult.status = "timeout"
          /\ toolOutput.status = "fail" =>
                toolResult.status = "failed" /\ toolResult.error.set
          /\ toolOutput.status = "success" =>
                /\ tool \in Normalizing
                /\ toolResult.status \in {"success", "failed", "timeout"}
                /\ toolResult.status = "timeout"
                      <=> (SentinelSeen(tool, rawFile) /\ ~RaisesToolError(tool, rawFile))
                /\ toolResult.status = "failed"
                      <=> \/ RaisesToolError(tool, rawFile)
                          \/ analysis = "ERROR"
                /\ toolResult.status = "timeout" => toolResult.findings = <<>>

C7_ExecuteReturnsStatus ==
    (pc # "not_started" /\ \A i \in DOMAIN runs : runs[i].o.kind \in {"exit", "timeout"})
        => /\ pc # "execute_raised"
           /\ toolOutput.status \in {"success", "fail", "timeout"}
           /\ \A i \in DOMAIN runs : runs[i].out.status \in {"success", "fail", "timeout"}

C7_Witness ==
    /\ pc = "executed"
    /\ tool = "conscs"
    /\ runs # <<>>
    /\ runs[1].o.kind = "exit"
    /\ runs[1].o.returncode = 137
    /\ toolOutput.status = "fail"

DefaultDisallowSet == {1, 2, 126, 127, 128, 130, 137, 139, 143, 255}

DisallowSet(t) == IF t = "circomspect" THEN DefaultDisallowSet \ {1} ELSE DefaultDisallowSet

\* C8: a process that exits with a non-zero code of the tool's disallow-set is classified
\* Fail; one that exits with zero or with a code outside the set is classified Success, and
\* a ToolOutput with status Success is parsed.
C8_ExitCodeClassification ==
    /\ \A i \in DOMAIN runs :
          runs[i].o.kind = "exit" =>
              runs[i].out.status =
                  IF runs[i].o.returncode # 0 /\ runs[i].o.returncode \in DisallowSet(tool)
                  THEN "fail" ELSE "success"
    /\ (pc \in {"processed", "process_raised"} /\ toolOutput.status = "success")
          => parsedOut = Parse(tool, rawFile)

C8_Witness ==
    /\ pc = "processed"
    /\ tool = "conscs"
    /\ runs # <<>>
    /\ runs[1].o.kind = "exit"
    /\ runs[1].o.returncode = 3
    /\ toolOutput.status = "success"
    /\ parsedOut = ConsCSParse(rawFile)

\* C10: when a process of the invocation hits the wall-clock timeout, the ToolOutput has
\* status Timeout, holds the partial stdout and stderr of that process, and its message,
\* which is the content of raw.txt, begins with the sentinel [Timed out].
C10_TimeoutOutput ==
    \A i \in DOMAIN runs :
        (pc = "executed" /\ runs[i].o.kind = "timeout")
            => /\ toolOutput.status = "timeout"
               /\ toolOutput.stdout = runs[i].o.stdout
               /\ toolOutput.stderr = runs[i].o.stderr
               /\ toolOutput.msg # <<>>
               /\ StartsWith(toolOutput.msg[1], TIMED_OUT)
               /\ rawFile.content = toolOutput.msg

----------------------------------------------------------------------------
\* Properties of the normalizers (Spec)

StandardizedBugCategory ==
    {"Under-Constrained", "Over-Constrained", "Computational-Issue",
     "Warning (Other -- probably not a bug)"}

\* the native bug string behind finding k is one the adapter's mapping names
NativeListed(t, parsed, k) ==
    IF t = "zkfuzz"
    THEN LowerHasUnder(parsed.vulnerability) \/ LowerHasOver(parsed.vulnerability)
    ELSE ConsCSUnified(parsed.findings[k].type).bug_title # "Other"

\* C11: every finding of a normalizer carries one of the four standardized categories,
\* and a native bug string that the adapter's mapping does not name is mapped to Warning.
C11_NormalizerTotalUnlistedIsWarning ==
    pc = "processed" =>
        \A k \in DOMAIN toolResult.findings :
            /\ toolResult.findings[k].unified_bug_title \in StandardizedBugCategory
            /\ ~NativeListed(tool, parsedOut, k)
                  => toolResult.findings[k].unified_bug_title
                        = "Warning (Other -- probably not a bug)"

----------------------------------------------------------------------------
\* Relations between evaluations (EvalSpec)

\* the evaluator of adapter t
Evaluate(t, g, data) ==
    CASE t = "conscs" -> ConsCSEvaluate(g, data.findings)
      [] t = "circomspect" -> CircomspectCompare(g, data)
      [] t = "circom_civer" -> CiverCompare(g, data)
      [] t = "ecneproject" -> EcneCompare(g, data)
      [] t = "picus" -> PicusCompare(g, data)

\* the list of findings in the tool data of a location-precise adapter
FindingList(t, data) ==
    CASE t = "conscs" -> data.findings
      [] t = "circomspect" -> data.warnings
      [] t = "circom_civer" -> data.buggy_components

\* the findings adapter t can report
FindingAlphabet(t) ==
    CASE t = "conscs" -> ConsCSFindings
      [] t = "circomspect" -> {w \in Warnings : w.wellformed}
      [] t = "circom_civer" -> {c \in Components : ~c.threshold}

\* the tool data with finding f put after the first i findings
WithFinding(t, data, i, f) ==
    LET list == FindingList(t, data)
        longer == SubSeq(list, 1, i) \o <<f>> \o SubSeq(list, i + 1, Len(list))
    IN CASE t = "conscs" -> [data EXCEPT !.findings = longer]
         [] t = "circomspect" -> [data EXCEPT !.warnings = longer]
         [] t = "circom_civer" -> [data EXCEPT !.buggy_components = longer]

HasFindingList(t, data) ==
    t \in LocationPrecise /\ (t = "circomspect" => data.kind = "list")

\* C12: evaluation is monotone in the findings: a finding added to an empty list gives
\* FalseNegative / false only if the empty list did, and a finding added anywhere to a
\* list whose verdict is TruePositive / correct leaves the verdict TruePositive / correct.
C12_EvaluationMonotone ==
    (pc = "evaluated" /\ HasFindingList(tool, toolData)) =>
        \A f \in FindingAlphabet(tool) :
            \A i \in 0..Len(FindingList(tool, toolData)) :
                LET more == Evaluate(tool, gt, WithFinding(tool, toolData, i, f))
                IN /\ (FindingList(tool, toolData) = <<>> /\ IsFalseNegative(more))
                         => IsFalseNegative(evaluation)
                   /\ IsTruePositive(evaluation) => IsTruePositive(more)

C12_Witness ==
    /\ pc = "evaluated"
    /\ tool = "conscs"
    /\ Len(toolData.findings) = 2
    /\ toolData.findings[1].unified_bug_title # toolData.findings[2].unified_bug_title
    /\ Lower(toolData.findings[2].unified_bug_title) = Lower(gt.vulnerability)
    /\ IsTruePositive(evaluation)

\* the ground-truth line range holds line n
InGtRange(n, g) ==
    /\ g.location.Line.kind \in {"single", "range"}
    /\ g.location.Line.a <= n
    /\ n <= (IF g.location.Line.kind = "range" THEN g.location.Line.b
             ELSE g.location.Line.a)

\* C13: a warning of a location-precise tool is a match exactly when its category equals
\* the ground-truth vulnerability and its line lies inside the ground-truth line range
\* (a single line or an inclusive range) or the tool reported no line; the verdict is
\* TruePositive / correct exactly when some warning is a match.
C13_MatchIsTypeAndLineOrNoLine ==
    (pc = "evaluated" /\ tool = "circomspect" /\ toolData.kind = "list" /\ GtComplete(gt))
        => (IsTruePositive(evaluation)
              <=> \E k \in DOMAIN toolData.warnings :
                     LET w == toolData.warnings[k]
                     IN /\ Lower(CS_MAPPING(w.code)) = Lower(gt.vulnerability)
                        /\ (~w.wellformed \/ InGtRange(w.line, gt)))

----------------------------------------------------------------------------
\* Picus counterexample differencing (ParseSpec)

\* C14: a signal of a Picus counterexample becomes a finding exactly when first_outputs
\* and second_outputs both hold it with different values; for first_outputs
\* {"main.c": "0"} and second_outputs {"main.c": "1"} there is exactly one finding, with
\* category Under-Constrained and signal "main.c".
C14_PicusDifferencing ==
    (pc = "parsed" /\ tool = "picus" /\ parsedOut.result = "Underconstrained") =>
        LET findings == PicusUniform(parsedOut)
            first == parsedOut.first_outputs
            second == parsedOut.second_outputs
        IN /\ \A name \in {first[k].name : k \in DOMAIN first}
                             \cup {second[k].name : k \in DOMAIN second} :
                  (\E k \in DOMAIN findings : findings[k].signal = name)
                      <=> /\ DictHas(first, name)
                          /\ DictHas(second, name)
                          /\ DictGet(first, name) # DictGet(second, name)
           /\ (/\ first = <<[name |-> "main.c", value |-> "0"]>>
               /\ second = <<[name |-> "main.c", value |-> "1"]>>)
                  => /\ Len(findings) = 1
                     /\ findings[1].bug_type = "Under-Constrained"
                     /\ findings[1].signal = "main.c"

----------------------------------------------------------------------------
\* FuzzSpec: ZkFuzz.compare_zkbugs_ground_truth on the ground truth that
\* core.generate_ground_truth writes. A string is a sequence of pieces, each a word, a
\* space or a punctuation character; a substring is a contiguous run of pieces.

MaxPieces == 3

FuzzPieces == {"Under", "Constrained", "-", " ", ":"}

\* Python's None where a string is expected
NoneStr == <<"<None>">>

\* d.get(key, default) on a JSON object
DictGetKey(d, key, default) == IF key \in DOMAIN d THEN d[key] ELSE default

\* s.replace(piece, "")
Replace(s, piece) == SelectSeq(s, LAMBDA x : x # piece)

\* needle in haystack
IsSubstring(needle, haystack) ==
    \E i \in 0..(Len(haystack) - Len(needle)) :
        \A k \in 1..Len(needle) : haystack[i + k] = needle[k]

\* (v or "").replace("-", "").replace(" ", "").lower()
ZkFuzzNormalize(v) ==
    LET str == IF v = NoneStr THEN <<>> ELSE v
        stripped == Replace(Replace(str, "-"), " ")
    IN [k \in DOMAIN stripped |-> Lower(stripped[k])]

\* core.generate_ground_truth: bug_data.get("Vulnerability") is stored under the key
\* "vulnerability" (the other twelve keys it writes are lower-case as well)
generate_ground_truth(bug_data) ==
    [bug_name |-> <<"bug">>,
     vulnerability |-> DictGetKey(bug_data, "Vulnerability", NoneStr)]

\* ZkFuzz.compare_zkbugs_ground_truth
ZkFuzzCompare(gt_data, data) ==
    LET status == DictGetKey(data, "result", "tool error")
        vulnerability == DictGetKey(data, "vulnerability", <<>>)
        gt_vulnerability == DictGetKey(gt_data, "Vulnerability", NoneStr)
        reason == CASE status = "Timed out" -> <<"Reached zkhydra threshold.">>
                    [] status = "tool error" ->
                          IF vulnerability # <<>> THEN vulnerability ELSE <<"tool error">>
                    [] status = "found_bug" -> <<"found_bug">>
                    [] status = "found_no_bug" -> <<"Tool found no counter example">>
                    [] status = "previous errors were found" ->
                          <<"Tool found previous errors">>
                    [] OTHER -> IF status # "" THEN <<status>> ELSE <<"unknown">>
        vulnerability_str == ZkFuzzNormalize(vulnerability)
        gt_vulnerability_str == ZkFuzzNormalize(gt_vulnerability)
        is_correct == /\ reason = <<"found_bug">>
                      /\ gt_vulnerability_str # <<>>
                      /\ IsSubstring(gt_vulnerability_str, vulnerability_str)
    IN  IF is_correct THEN Verdict("correct", "absent")
        ELSE IF reason = <<"Reached zkhydra threshold.">> THEN Verdict("timeout", "absent")
        ELSE IF reason \in {<<"tool error">>, <<"Tool Error">>} THEN Verdict("error", "absent")
        ELSE IF reason = <<"Tool found previous errors">> THEN Verdict("error", "absent")
        ELSE Verdict("false", "absent")

\* the bug entry of a zkbugs_config.json, as far as its "Vulnerability" goes
BugConfigs ==
    {[Project |-> <<"p">>]}
    \cup [Vulnerability : {<<>>, <<"Under", "-", "Constrained">>,
                           <<"Over", "-", "Constrained">>, <<"Constrained">>}]

\* the parsed output ZkFuzz._helper_parse_output can write
ZkFuzzData ==
    { ZkFuzzParsed("tool error", <<"tool error (no output)">>, "", ""),
      ZkFuzzParsed("tool error", <<"tool error">>, "", ""),
      ZkFuzzParsed("Timed out", <<"Not found">>, "", ""),
      ZkFuzzParsed("previous errors were found", <<"previous errors were found">>, "", ""),
      ZkFuzzParsed("", <<>>, "", ""),
      ZkFuzzParsed("found_no_bug", <<"No Counter Example Found">>, "", "") }
    \cup { ZkFuzzParsed("found_bug", v, "", "") : v \in TextsUpTo(FuzzPieces, MaxPieces) }

FuzzInit ==
    /\ pc = "to_evaluate"
    /\ tool = "zkfuzz"
    /\ gt \in BugConfigs
    /\ toolData \in ZkFuzzData
    /\ evaluation = NoEval
    /\ batch = NoBatch
    /\ proc = NoProc
    /\ runs = <<>>
    /\ cwd = "base"
    /\ toolOutput = NoOutput
    /\ rawFile = NoFile
    /\ parsedOut = NoParsed
    /\ analysis = "none"
    /\ toolResult = NoResult

CompareZkFuzz == EvaluateBy("zkfuzz", ZkFuzzCompare(generate_ground_truth(gt), toolData))

FuzzSpec == FuzzInit /\ [][CompareZkFuzz]_vars

\* the normalization the property speaks of: punctuation and spaces stripped, case-folded
StripPunctuation(v) ==
    LET str == IF v = NoneStr THEN <<>> ELSE v
        stripped == SelectSeq(str, LAMBDA x : x \notin {"-", ":", " "})
    IN [k \in DOMAIN stripped |-> Lower(stripped[k])]

\* C15: zkfuzz's verdict is TruePositive exactly when the tool reported a bug and the
\* normalized ground-truth vulnerability name is a non-empty substring of the normalized
\* tool string; tool string "UnderConstrained: ..." with ground truth "Under-Constrained"
\* gives TruePositive.
C15_ZkFuzzFuzzyMatch ==
    (pc = "evaluated" /\ tool = "zkfuzz") =>
        LET tool_str == StripPunctuation(toolData.vulnerability)
            gt_str == StripPunctuation(DictGetKey(gt, "Vulnerability", NoneStr))
        IN /\ evaluation.result \in {"TruePositive", "correct"}
                 <=> /\ toolData.result = "found_bug"
                     /\ gt_str # <<>>
                     /\ IsSubstring(gt_str, tool_str)
           /\ (/\ toolData.result = "found_bug"
               /\ toolData.vulnerability = <<"Under", "Constrained", ":">>
               /\ gt = [Vulnerability |-> <<"Under", "-", "Constrained">>])
                  => evaluation.result \in {"TruePositive", "correct"}

----------------------------------------------------------------------------
\* Incomplete ground truth (EvalSpec)

\* the ground truth lacks a field the evaluator of adapter t reads
LacksRequiredField(t, g) ==
    CASE t = "conscs" -> g.vulnerability = "None"
      [] t = "circomspect" ->
            g.vulnerability = "None" \/ ~g.location.present
                \/ g.location.Line.kind \in {"none", "malformed"}
      [] t = "circom_civer" -> ~g.location.present \/ g.location.Function = "None"
      [] OTHER -> FALSE

\* C17: when the ground truth lacks a required field (vulnerability, location or line),
\* the evaluator returns an explicit Undecided or error verdict and does not raise,
\* whatever the findings are (a run that reached the time threshold aside).
C17_IncompleteGroundTruthIsUndecidedOrError ==
    (pc = "evaluated" /\ LacksRequiredField(tool, gt) /\ toolData.kind # "threshold") =>
        evaluation.result \in {"Undecided", "error"}

----------------------------------------------------------------------------
\* Pre-flight detection (Spec)

\* execute found that an input file the analyzer needs (EcneProject's R1CS or sym file)
\* is missing
InputNotFound(t, p) ==
    /\ t = "ecneproject"
    /\ RunCommand(exit_codes(t), p.o1).status = "success"
    /\ ~p.filesFound

\* C18: an invocation for which a missing binary or a missing required input file is
\* detected ends in a Fail outcome with a message, and no process is spawned for it,
\* neither before nor after the detection.
C18_PreFlightSpawnsNoProcess ==
    (pc # "not_started" /\ InputNotFound(tool, proc)) =>
        /\ toolOutput.status = "fail"
        /\ toolOutput.msg # <<>>
        /\ runs = <<>>

----------------------------------------------------------------------------
\* BatchSpec: core.zkbugs_mode. For every bug with a circuit: generate the ground truth,
\* execute_tools (execute and process_output of every tool of the registry, in order),
\* then _helper_eval of every tool. The loops are modelled as written, for a registry of
\* adapter instances; an exception that no handler catches ends the run ("aborted").

MaxBugs == 2
MaxTools == 2

invocationVars == <<pc, tool, proc, runs, cwd, toolOutput, rawFile, parsedOut, analysis,
                    toolResult, gt, toolData, evaluation>>

\* tool_registry: the resolved tools, in the order they were asked for
Registries ==
    { r \in [1..MaxTools -> Tools] : \A i, j \in 1..MaxTools : r[i] = r[j] => i = j }

\* ToolResult.status of execute followed by process_output when the environment does p;
\* "raised" when an exception leaves execute or process_output
InvocationStatus(t, p) ==
    LET r == InternalExecute(t, p, "base")
        file == [exists |-> TRUE, readable |-> TRUE, content |-> r.out.msg]
    IN  IF r.out.status = "raised" THEN "raised"
        ELSE IF r.out.status = "timeout" THEN "timeout"
        ELSE IF r.out.status = "fail" THEN "failed"
        ELSE IF RaisesToolError(t, file) THEN "failed"
        ELSE IF t \in Normalizing
        THEN MapAnalysisStatus(Uniform(t, Parse(t, file)).status)
        ELSE "raised"

\* how many subprocesses execute starts: the run_command calls, and for ConsCS the circom
\* compilation, which is skipped when the R1CS file is there already
Subprocesses(t, p) ==
    { Len(InternalExecute(t, p, "base").runs) + c :
        c \in IF t # "conscs" THEN {0} ELSE IF p.compiled THEN {0, 1} ELSE {1} }

\* evaluate_zkbugs_ground_truth: only ConsCS overrides it; the inherited body returns None
\* and evaluation.get(...) in _helper_eval raises
EvaluatorRaises(t) == t # "conscs"

BatchInit ==
    /\ batch \in [at : {"generate"}, registry : Registries, bugs : 1..MaxBugs,
                  idx : {1}, tix : {1}, todo : {0}, status : {"none"}, in_flight : {{}},
                  invocations : {<<>>}, results : {<<>>}, processed : {{}},
                  evaluations : {{}}]
    /\ pc = "batch"
    /\ tool = "none"
    /\ proc = NoProc
    /\ runs = <<>>
    /\ cwd = "base"
    /\ toolOutput = NoOutput
    /\ rawFile = NoFile
    /\ parsedOut = NoParsed
    /\ analysis = "none"
    /\ toolResult = NoResult
    /\ gt = NoGt
    /\ toolData = NoData
    /\ evaluation = NoEval

\* generate_ground_truth(bug["config_path"], ...): open / json.load raise on an unreadable
\* config, list(config.keys())[0] raises on an empty one
GenerateGroundTruth ==
    /\ batch.at = "generate"
    /\ \E config \in {"ok", "unreadable", "empty"} :
          batch' = IF config = "ok"
                   THEN [batch EXCEPT !.at = "execute", !.tix = 1, !.results = <<>>]
                   ELSE [batch EXCEPT !.at = "aborted"]
    /\ UNCHANGED invocationVars

\* what one invocation of each tool can come to: the number of subprocesses and the status
InvocationOutcomes ==
    [t \in Tools |->
        UNION { { [n |-> n, status |-> InvocationStatus(t, p)] : n \in Subprocesses(t, p) } :
                p \in {q \in Procs(t) : WellFormedProc(t, q)} }]

\* execute_tools: tool_instance.execute(...) is entered for tool_registry[tix]
BeginExecute ==
    /\ batch.at = "execute"
    /\ LET t == batch.registry[batch.tix]
       IN \E o \in InvocationOutcomes[t] :
             batch' = [batch EXCEPT !.at = "running", !.todo = o.n, !.status = o.status,
                                    !.invocations = Append(@, <<batch.idx, t>>)]
    /\ UNCHANGED invocationVars

\* Mutant: the next subprocess is started while one is running
CanSpawnNoWait(b) == b.at = "running" /\ b.todo > 0

\* subprocess.run returns only when the child has ended or was killed at the timeout:
\* execute reaches its next subprocess.run with no child running
CanSpawn(b) == b.at = "running" /\ b.todo > 0 /\ b.in_flight = {}

\* subprocess.run starts a child process
SpawnProcess ==
    /\ CanSpawn(batch)
    /\ batch' = [batch EXCEPT !.in_flight = @ \cup {<<batch.idx, batch.tix, batch.todo>>},
                              !.todo = @ - 1]
    /\ UNCHANGED invocationVars

\* the child ends, or is killed at the timeout, and subprocess.run returns
ProcessReturns ==
    /\ batch.at = "running"
    /\ \E child \in batch.in_flight : batch' = [batch EXCEPT !.in_flight = @ \ {child}]
    /\ UNCHANGED invocationVars

\* Mutant: a tool that timed out is run again on the same circuit
AfterResultRetry(b, status) ==
    IF status = "raised" THEN [b EXCEPT !.at = "aborted"]
    ELSE IF status = "timeout" THEN [b EXCEPT !.at = "execute"]
    ELSE LET recorded == [b EXCEPT !.results = Append(@, [tool |-> b.registry[b.tix],
                                                         status |-> status]),
                                   !.processed = @ \cup {<<b.idx, b.registry[b.tix]>>}]
         IN IF b.tix < Len(b.registry)
            THEN [recorded EXCEPT !.at = "execute", !.tix = @ + 1]
            ELSE [recorded EXCEPT !.at = "evaluate", !.tix = 1]

\* execute_tools: results[tool_name] = process_output(tool_output), then the next tool of
\* the registry, or the evaluation loop after the last one
AfterResult(b, status) ==
    IF status = "raised" THEN [b EXCEPT !.at = "aborted"]
    ELSE LET recorded == [b EXCEPT !.results = Append(@, [tool |-> b.registry[b.tix],
                                                         status |-> status]),
                                   !.processed = @ \cup {<<b.idx, b.registry[b.tix]>>}]
         IN IF b.tix < Len(b.registry)
            THEN [recorded EXCEPT !.at = "execute", !.tix = @ + 1]
            ELSE [recorded EXCEPT !.at = "evaluate", !.tix = 1]

\* execute has returned (or raised) and process_output runs
RecordResult ==
    /\ batch.at = "running"
    /\ batch.todo = 0
    /\ batch.in_flight = {}
    /\ batch' = AfterResult(batch, batch.status)
    /\ UNCHANGED invocationVars

\* _helper_eval for tool_registry[tix]: nothing for a result that is not SUCCESS; otherwise
\* evaluation.json is written (json.dump also writes the None the inherited evaluator
\* returns) and evaluation.get(...) runs. After the last tool, the next bug
HelperEval ==
    /\ batch.at = "evaluate"
    /\ LET t == batch.registry[batch.tix]
           success == batch.results[batch.tix].status = "success"
           written == IF success
                      THEN [batch EXCEPT !.evaluations = @ \cup {<<batch.idx, t>>}]
                      ELSE batch
       IN IF success /\ EvaluatorRaises(t)
          THEN batch' = [written EXCEPT !.at = "aborted"]
          ELSE IF batch.tix < Len(batch.registry)
          THEN batch' = [written EXCEPT !.tix = @ + 1]
          ELSE IF batch.idx < batch.bugs
          THEN batch' = [written EXCEPT !.at = "generate", !.idx = @ + 1, !.tix = 1]
          ELSE batch' = [written EXCEPT !.at = "completed"]
    /\ UNCHANGED invocationVars

BatchNext ==
    \/ GenerateGroundTruth
    \/ BeginExecute
    \/ SpawnProcess
    \/ ProcessReturns
    \/ RecordResult
    \/ HelperEval

\* the orchestrator is one sequential program: it keeps running while it has a step
BatchSpec == BatchInit /\ [][BatchNext]_vars /\ WF_vars(BatchNext)

----------------------------------------------------------------------------
\* Properties of a dataset run (BatchSpec)

\* every tool of the registry has processed every bug
AllProcessed ==
    \A b \in 1..batch.bugs : \A k \in DOMAIN batch.registry :
        <<b, batch.registry[k]>> \in batch.processed

\* C16: a failure while processing one circuit never aborts the run; every discovered
\* circuit is eventually processed by every resolved tool.
C16_FailureNeverAbortsRun == <>AllProcessed

\* how often execute was entered for bug b and tool t
Invoked(b, t) ==
    Cardinality({i \in DOMAIN batch.invocations : batch.invocations[i] = <<b, t>>})

\* the loop has gone past tool number k of bug b
Past(b, k) ==
    \/ b < batch.idx
    \/ b = batch.idx /\ batch.at \in {"evaluate", "completed"}
    \/ b = batch.idx /\ batch.at \in {"execute", "running"} /\ k < batch.tix

\* C19: no retries. execute is never invoked a second time for a (tool, circuit) pair;
\* every pair the run has dealt with was invoked exactly once and has its single outcome
\* recorded; a recorded outcome (Timeout and Failed included) stays as it is and is not
\* followed by another invocation of that tool on that circuit.
C19_NoRetries ==
    /\ [](\A b \in 1..batch.bugs : \A k \in DOMAIN batch.registry :
            /\ Invoked(b, batch.registry[k]) <= 1
            /\ Past(b, k) => /\ Invoked(b, batch.registry[k]) = 1
                             /\ <<b, batch.registry[k]>> \in batch.processed
            /\ (b = batch.idx /\ Past(b, k) /\ batch.at # "completed")
                  => /\ k <= Len(batch.results)
                     /\ batch.results[k].tool = batch.registry[k])
    /\ [][batch.at # "generate"
            => \A k \in DOMAIN batch.results :
                  /\ k <= Len(batch'.results)
                  /\ batch'.results[k] = batch.results[k]]_vars

C19_Witness ==
    /\ batch.at = "completed"
    /\ batch.bugs = MaxBugs
    /\ \E k \in DOMAIN batch.results : batch.results[k].status \in {"timeout", "failed"}
    /\ \A b \in 1..batch.bugs : \A k \in DOMAIN batch.registry :
          Invoked(b, batch.registry[k]) = 1

\* C20: execution is strictly sequential. At most one subprocess is in flight, and a
\* subprocess, the next tool or the next circuit starts only when none is in flight.
C20_StrictlySequential ==
    /\ [](Cardinality(batch.in_flight) <= 1)
    /\ [][(\/ batch'.in_flight # batch.in_flight /\ batch'.in_flight # {}
           \/ batch'.tix # batch.tix
           \/ batch'.idx # batch.idx)
            => batch.in_flight = {}]_vars

C20_Witness ==
    /\ batch.in_flight # {}
    /\ batch.idx = MaxBugs
    /\ batch.tix = MaxTools
    /\ Len(batch.invocations) = MaxBugs * MaxTools

----------------------------------------------------------------------------
\* Scope of the circomspect parser (ParseSpec)

\* the (code, line) pairs that the report holds inside the block of function X: from the
\* first marker of X up to the next marker
ScopedPairs(bug_info, X) ==
    { <<bug_info[j - 1][2], IntOf(bug_info[j][3])>> :
        j \in { j \in 2..Len(bug_info) :
                  /\ IsLocation(bug_info[j])
                  /\ bug_info[j - 1][1] = "warning"
                  /\ \E i \in 1..(j - 1) :
                        /\ bug_info[i] = <<"circomspect: analyzing template", X>>
                        /\ \A h \in 1..(j - 1) :
                              (h # i /\ bug_info[h] # <<>>
                                 /\ bug_info[h][1] = "circomspect: analyzing template")
                                  => h < i /\ bug_info[h][2] # X } }

\* C21: the parsed record of circomspect holds only (code, line) pairs of the block of
\* the function X the ground truth names; a warning for another function or template
\* never appears in it.
C21_ParsedWarningsAreScoped ==
    (pc = "parsed" /\ tool = "circomspect") =>
        \A X \in ComponentNames :
            \A k \in DOMAIN parsedOut.issues :
                <<parsedOut.issues[k].code, parsedOut.issues[k].line>>
                    \in ScopedPairs(ReadLines(rawFile.content), X)

----------------------------------------------------------------------------
\* Section tracking of the Picus parser (ParseSpec)

\* the section header most recently seen before line j ("None" before any header)
HeaderBefore(bug_info, j) ==
    LET headers == { h \in 1..(j - 1) :
                       bug_info[h] \in { <<"inputs:">>, <<"first possible outputs:">>,
                                         <<"second possible outputs:">> } }
    IN IF headers = {} THEN "None"
       ELSE LET h == CHOOSE h \in headers : \A g \in headers : g <= h
            IN CASE bug_info[h] = <<"inputs:">> -> "inputs"
                 [] bug_info[h] = <<"first possible outputs:">> -> "first_outputs"
                 [] bug_info[h] = <<"second possible outputs:">> -> "second_outputs"

\* line j comes before the first "internal variables" marker
BeforeInternal(bug_info, j) ==
    \A h \in 1..j : bug_info[h][1] \notin { "first internal variables:",
                                            "second internal variables:" }

\* the "signal: value" lines that belong in map
LinesOf(bug_info, map) ==
    { j \in DOMAIN bug_info : /\ IsAssignment(bug_info[j])
                              /\ BeforeInternal(bug_info, j)
                              /\ HeaderBefore(bug_info, j) = map }

\* C22: when Picus reports a counterexample, each "signal: value" line is stored in
\* exactly the map selected by the most recent section header; a line before any header
\* and a line at or after the first "internal variables" marker are stored in no map.
C22_PicusSectionTracking ==
    (pc = "parsed" /\ tool = "picus" /\ parsedOut.result = "Underconstrained") =>
        LET bug_info == ReadLines(rawFile.content)
        IN \A map \in {"inputs", "first_outputs", "second_outputs"} :
              LET stored == parsedOut[map]
                  lines == LinesOf(bug_info, map)
              IN /\ \A j \in lines : DictHas(stored, bug_info[j][1])
                 /\ \A k \in DOMAIN stored :
                       \E j \in lines :
                           /\ bug_info[j] = <<stored[k].name, ":", stored[k].value>>
                           /\ \A i \in lines : bug_info[i][1] = stored[k].name => i <= j

C22_Witness ==
    /\ pc = "parsed"
    /\ tool = "picus"
    /\ parsedOut.result = "Underconstrained"
    /\ LET bug_info == ReadLines(rawFile.content)
       IN /\ Len(bug_info) = 5
          /\ IsAssignment(bug_info[2])
          /\ bug_info[3] = <<"first possible outputs:">>
          /\ IsAssignment(bug_info[4])
          /\ bug_info[5] = <<"first internal variables:">>
    /\ parsedOut.inputs = <<>>
    /\ Len(parsedOut.first_outputs) = 1

----------------------------------------------------------------------------
\* Independence of the ground truth (ParseSpec)

----------------------------------------------------------------------------
\* Working directory (Spec)

\* C24: after an invocation has returned or raised (success, disallowed exit code,
\* timeout, or an exception from the spawn), the process working directory is what it
\* was before the invocation.
C24_WorkingDirectoryRestored ==
    pc # "not_started" => cwd = "base"

----------------------------------------------------------------------------
\* Verdict files of a dataset run (BatchSpec)

\* the result recorded for tool t on the bug being processed is SUCCESS
Succeeded(b, t) ==
    /\ batch.idx = b
    /\ \E k \in DOMAIN batch.results :
          batch.results[k].tool = t /\ batch.results[k].status = "success"

\* C25: evaluation.json is written for a (tool, circuit) pair iff the tool's result is
\* SUCCESS, and only after every resolved tool was executed and processed for the circuit;
\* a TIMEOUT or FAILED result gets no verdict file.
C25_VerdictFileIffSuccess ==
    /\ [][\A e \in batch'.evaluations \ batch.evaluations :
             /\ Succeeded(e[1], e[2])
             /\ \A k \in DOMAIN batch.registry :
                   <<e[1], batch.registry[k]>> \in batch.processed]_vars
    /\ \A b \in 1..MaxBugs : \A t \in Tools :
          Succeeded(b, t) ~> (<<b, t>> \in batch.evaluations)

----------------------------------------------------------------------------
\* Files of a tool directory (Spec)

\* C26: once execute has written tool_output.json and process_output has returned,
\* results.json exists too, for every execution outcome (Success, Fail, Timeout).
C26_ResultsFileForEveryOutcome ==
    pc = "processed" => toolResult.results_file

----------------------------------------------------------------------------
\* SummarySpec: evaluate_mode of src/main.py on one bug: execute_tools, then parse and
\* compare per tool, then generate_evaluation_summary. batch holds the orchestrator's data.

\* execute_tools: the "status" it records for a tool
ExecutionStatuses == {"success", "timeout", "failed"}

\* the "result" of a tool's compare_zkbugs_ground_truth ("unknown" without a comparison
\* function), or "raised" when parse_output or the comparison raises
ComparisonResults == {"correct", "false", "timeout", "error", "unknown", "raised"}

NoStatistics ==
    [total_tools |-> -1, true_positives |-> -1, false_negatives |-> -1, timeouts |-> -1,
     errors |-> -1, needs_manual_review |-> -1]

SummaryInit ==
    /\ batch \in [at : {"execute_tools"}, tools_list : Registries, tix : {1},
                  tool_results : {<<>>}, evaluation_results : {<<>>},
                  statistics : {NoStatistics}]
    /\ pc = "evaluate_mode"
    /\ tool = "none"
    /\ proc = NoProc
    /\ runs = <<>>
    /\ cwd = "base"
    /\ toolOutput = NoOutput
    /\ rawFile = NoFile
    /\ parsedOut = NoParsed
    /\ analysis = "none"
    /\ toolResult = NoResult
    /\ gt = NoGt
    /\ toolData = NoData
    /\ evaluation = NoEval

\* execute_tools: results[tool_name] for tools_list[tix]
ExecuteTools ==
    /\ batch.at = "execute_tools"
    /\ \E status \in ExecutionStatuses :
          LET recorded == [batch EXCEPT !.tool_results =
                              Append(@, [tool |-> batch.tools_list[batch.tix],
                                         status |-> status])]
          IN batch' = IF batch.tix < Len(batch.tools_list)
                      THEN [recorded EXCEPT !.tix = @ + 1]
                      ELSE [recorded EXCEPT !.at = "evaluate", !.tix = 1]
    /\ UNCHANGED invocationVars

\* evaluation_results[tool_name] of evaluate_mode; r.get("result") of an entry without the
\* key is "None"
EvaluationEntry(tool_result, comparison, manual) ==
    IF tool_result.status # "success"
    THEN [tool |-> tool_result.tool, status |-> tool_result.status, result |-> "None",
          needs_manual_review |-> FALSE]
    ELSE IF comparison = "raised"
    THEN [tool |-> tool_result.tool, status |-> "error", result |-> "None",
          needs_manual_review |-> FALSE]
    ELSE [tool |-> tool_result.tool, status |-> "success", result |-> comparison,
          needs_manual_review |-> manual]

\* evaluate_mode: the evaluation loop, for tools_list[tix]
EvaluateMode ==
    /\ batch.at = "evaluate"
    /\ \E comparison \in ComparisonResults, manual \in BOOLEAN :
          /\ manual => comparison = "false"
          /\ LET entry == EvaluationEntry(batch.tool_results[batch.tix], comparison, manual)
                 recorded == [batch EXCEPT !.evaluation_results = Append(@, entry)]
             IN batch' = IF batch.tix < Len(batch.tools_list)
                         THEN [recorded EXCEPT !.tix = @ + 1]
                         ELSE [recorded EXCEPT !.at = "summary"]
    /\ UNCHANGED invocationVars

\* the counters of generate_evaluation_summary that count the entry r
Counted(r) ==
    {c \in {"true_positives", "false_negatives", "timeouts", "errors"} :
        \/ c = "true_positives" /\ r.result = "correct"
        \/ c = "false_negatives" /\ r.result = "false"
        \/ c = "timeouts" /\ r.result = "timeout"
        \/ c = "errors" /\ r.status = "error"}

\* the "statistics" of generate_evaluation_summary
generate_evaluation_summary(evaluation_results) ==
    LET count(c) == Cardinality({k \in DOMAIN evaluation_results :
                                    c \in Counted(evaluation_results[k])})
    IN [total_tools |-> Len(evaluation_results),
        true_positives |-> count("true_positives"),
        false_negatives |-> count("false_negatives"),
        timeouts |-> count("timeouts"),
        errors |-> count("errors"),
        needs_manual_review |->
            Cardinality({k \in DOMAIN evaluation_results :
                            evaluation_results[k].needs_manual_review})]

GenerateEvaluationSummary ==
    /\ batch.at = "summary"
    /\ batch' = [batch EXCEPT !.at = "summarized",
                              !.statistics =
                                  generate_evaluation_summary(batch.evaluation_results)]
    /\ UNCHANGED invocationVars

SummaryNext == ExecuteTools \/ EvaluateMode \/ GenerateEvaluationSummary

SummarySpec == SummaryInit /\ [][SummaryNext]_vars

\* C27: in the summary of a run every tool is counted in exactly one of true_positives,
\* false_negatives, timeouts and errors, and total_tools is the sum of the four, for every
\* combination of statuses and comparison results.
C27_SummaryCountsPartitionTools ==
    batch.at = "summarized" =>
        /\ \A k \in DOMAIN batch.evaluation_results :
              Cardinality(Counted(batch.evaluation_results[k])) = 1
        /\ batch.statistics.total_tools =
              batch.statistics.true_positives + batch.statistics.false_negatives
              + batch.statistics.timeouts + batch.statistics.errors

----------------------------------------------------------------------------
\* RegistrySpec: the adapters are constructed in any order and run commands. EXIT_CODES
\* of base.py is one set object of the module; self.exit_codes is a reference, to that
\* object ("EXIT_CODES") or to a set of the instance's own ("own").

RegistryInit ==
    /\ batch = [at |-> "tools", shared |-> EXIT_CODES, own |-> {},
                exit_codes |-> [t \in Tools |-> "unbuilt"],
                last |-> [tool |-> "none", returncode |-> 0, status |-> "none"]]
    /\ pc = "registry"
    /\ tool = "none"
    /\ proc = NoProc
    /\ runs = <<>>
    /\ cwd = "base"
    /\ toolOutput = NoOutput
    /\ rawFile = NoFile
    /\ parsedOut = NoParsed
    /\ analysis = "none"
    /\ toolResult = NoResult
    /\ gt = NoGt
    /\ toolData = NoData
    /\ evaluation = NoEval

\* Mutant: Circomspect removes exit code 1 from the set it was given
ToolInitInPlace(b, t) ==
    LET base == [b EXCEPT !.exit_codes[t] = "EXIT_CODES"]
    IN IF t = "circomspect" THEN [base EXCEPT !.shared = @ \ {1}] ELSE base

\* AbstractTool.__init__: self.exit_codes = EXIT_CODES; Circomspect.__init__ then
\* self.exit_codes = EXIT_CODES - {1}, a new set
ToolInit(b, t) ==
    LET base == [b EXCEPT !.exit_codes[t] = "EXIT_CODES"]
    IN IF t = "circomspect"
       THEN [base EXCEPT !.exit_codes[t] = "own", !.own = base.shared \ {1}]
       ELSE base

\* the set self.exit_codes refers to
SelfExitCodes(b, t) == IF b.exit_codes[t] = "own" THEN b.own ELSE b.shared

\* a tool is constructed; Circomspect.__init__ ends the process when the binary is missing
ConstructTool ==
    /\ batch.at = "tools"
    /\ \E t \in Tools, binary_exists \in BOOLEAN :
          /\ batch.exit_codes[t] = "unbuilt"
          /\ binary_exists \/ t = "circomspect"
          /\ batch' = IF binary_exists THEN ToolInit(batch, t)
                      ELSE [ToolInit(batch, t) EXCEPT !.at = "exited"]
    /\ UNCHANGED invocationVars

\* run_command of a constructed tool whose process ends with exit code c
RunWithExitCode ==
    /\ batch.at = "tools"
    /\ \E t \in Tools, c \in Codes :
          /\ batch.exit_codes[t] # "unbuilt"
          /\ batch' = [batch EXCEPT !.last =
                 [tool |-> t, returncode |-> c,
                  status |-> RunCommand(SelfExitCodes(batch, t),
                                        [kind |-> "exit", returncode |-> c,
                                         stdout |-> <<>>, stderr |-> <<>>]).status]]
    /\ UNCHANGED invocationVars

RegistryNext == ConstructTool \/ RunWithExitCode

RegistrySpec == RegistryInit /\ [][RegistryNext]_vars

\* C28: in any order of construction and execution, exit code 1 is Success for
\* circomspect and Fail for every other tool, and the shared default set of disallowed
\* exit codes is never modified.
C28_ExitCodeOverrideIsLocal ==
    /\ batch.shared = EXIT_CODES
    /\ batch.last.returncode = 1 /\ batch.last.tool # "none" =>
          batch.last.status = IF batch.last.tool = "circomspect" THEN "success" ELSE "fail"

\* another tool's process ended with exit code 1 after Circomspect was constructed
C28_Witness ==
    /\ batch.exit_codes["circomspect"] = "own"
    /\ batch.last.tool \in {"picus", "conscs"}
    /\ batch.last.returncode = 1
    /\ batch.last.status = "fail"

----------------------------------------------------------------------------
\* circom-civer sections (ParseSpec)

\* line i of the raw output follows a blank line with no section header in between
AfterBlankLine(content, i) ==
    \E j \in 1..(i - 1) :
        /\ content[j] = <<>>
        /\ \A k \in (j + 1)..(i - 1) :
              /\ content[k] # <<TIMED_OUT>>
              /\ \A h \in DOMAIN CiverHeaders : ~StartsWith(content[k], CiverHeaders[h])

\* C29: an empty line of the raw output resets the section context, so a component line
\* after a blank line without a new header is added to none of the lists: the lists hold
\* no more components than there are component lines not preceded by such a blank line.
C29_BlankLineResetsSection ==
    tool = "circom_civer" /\ pc = "parsed" =>
        Len(parsedOut.buggy_components) + Len(parsedOut.timed_out_components)
            + Len(parsedOut.verified_components)
        <= Cardinality({i \in DOMAIN rawFile.content :
                           /\ StartsWith(rawFile.content[i], "-")
                           /\ ~AfterBlankLine(rawFile.content, i)})

----------------------------------------------------------------------------
\* ScanSpec: the while loops of ConsCS._helper_parse_output, one iteration per step.
\* rawFile holds the log, parsedOut the locals of the loops, pc the loop that runs.

MaxLogLines == 4

\* lines of a ConsCS log without the timeout sentinel
ConsCSLogLines ==
    { <<"** filename:", "A">>, <<"** result:", "UNDER-CONSTRAINED!">>,
      <<"** result:", "CONSTRAINED!">>, <<"** result:", "!">>, <<"** time:", "2">>,
      <<"******">> }

ScanInit ==
    /\ pc = "outer"
    /\ tool = "conscs"
    /\ rawFile \in [exists : {TRUE}, readable : {TRUE},
                    content : TextsUpTo(ConsCSLogLines, MaxLogLines)]
    /\ parsedOut = [i |-> 1, j |-> 1, filename |-> "", result_type |-> "", exec_time |-> -1,
                    counterexample |-> "", total_time |-> 0, findings |-> <<>>,
                    starts |-> <<>>]
    /\ proc = NoProc
    /\ runs = <<>>
    /\ cwd = "base"
    /\ toolOutput = NoOutput
    /\ analysis = "none"
    /\ toolResult = NoResult
    /\ gt = NoGt
    /\ toolData = NoData
    /\ evaluation = NoEval
    /\ batch = NoBatch

\* one iteration of "while i < len(lines)"; starts records the lines taken as block starts
ScanOuter ==
    /\ pc = "outer"
    /\ LET lines == rawFile.content
           st == parsedOut
       IN IF st.i > Len(lines)
          THEN pc' = "done" /\ parsedOut' = st
          ELSE IF StartsWith(lines[st.i], "** filename:")
          THEN /\ pc' = "inner"
               /\ parsedOut' = [st EXCEPT !.filename = Rest(lines[st.i]),
                                          !.result_type = "", !.exec_time = -1,
                                          !.counterexample = "", !.j = st.i + 1,
                                          !.starts = Append(@, st.i)]
          ELSE pc' = "outer" /\ parsedOut' = [st EXCEPT !.i = @ + 1]
    /\ UNCHANGED <<tool, proc, runs, cwd, toolOutput, rawFile, analysis, toolResult, gt,
                   toolData, evaluation, batch>>

\* the inner loop is left: j is past the end, or lines[j] is the next "** filename:", a
\* "** contribution counts:" or a "******" line
BlockEnds(lines, j) ==
    \/ j > Len(lines)
    \/ StartsWith(lines[j], "** filename:")
    \/ /\ ~StartsWith(lines[j], "** result:")
       /\ ~StartsWith(lines[j], "** time:")
       /\ ~StartsWith(lines[j], "** counterexample:")
       /\ StartsWith(lines[j], "** contribution counts:") \/ StartsWith(lines[j], "******")

\* Mutant: the outer loop resumes after the line that ended the block
EndBlockSkip(st) ==
    LET finding == [file |-> st.filename, type |-> st.result_type, time |-> st.exec_time,
                    counter_example |-> st.counterexample]
    IN [st EXCEPT !.findings = IF st.result_type # "" /\ st.result_type # "CONSTRAINED"
                               THEN Append(@, finding) ELSE @,
                  !.i = st.j + 1]

\* after the inner loop: "if result_type: if result_type != 'CONSTRAINED': append", i = j
EndBlock(st) ==
    LET finding == [file |-> st.filename, type |-> st.result_type, time |-> st.exec_time,
                    counter_example |-> st.counterexample]
    IN [st EXCEPT !.findings = IF st.result_type # "" /\ st.result_type # "CONSTRAINED"
                               THEN Append(@, finding) ELSE @,
                  !.i = st.j]

\* the body of the inner loop for a line that does not end the block
BlockLine(next_line, st) ==
    LET read ==
        IF StartsWith(next_line, "** result:")
        THEN [st EXCEPT !.result_type = RStripBang(Rest(next_line))]
        ELSE IF StartsWith(next_line, "** time:")
        THEN IF FloatOf(Rest(next_line)) >= 0
             THEN [st EXCEPT !.exec_time = FloatOf(Rest(next_line)),
                             !.total_time = @ + FloatOf(Rest(next_line))]
             ELSE [st EXCEPT !.exec_time = -1]
        ELSE IF StartsWith(next_line, "** counterexample:")
        THEN [st EXCEPT !.counterexample = Rest(next_line)]
        ELSE st
    IN [read EXCEPT !.j = @ + 1]

\* one iteration of "while j < len(lines)", or the code after it
ScanInner ==
    /\ pc = "inner"
    /\ LET lines == rawFile.content
       IN IF BlockEnds(lines, parsedOut.j)
          THEN pc' = "outer" /\ parsedOut' = EndBlock(parsedOut)
          ELSE pc' = "inner" /\ parsedOut' = BlockLine(lines[parsedOut.j], parsedOut)
    /\ UNCHANGED <<tool, proc, runs, cwd, toolOutput, rawFile, analysis, toolResult, gt,
                   toolData, evaluation, batch>>

ScanNext == ScanOuter \/ ScanInner

\* the parser is one sequential function: it keeps running until it returns
ScanSpec == ScanInit /\ [][ScanNext]_vars /\ WF_vars(ScanNext)

\* the result of the block that starts at line s: the value of the last "** result:"
\* line before the block's end, without trailing "!"; "" when there is none
BlockResult(lines, s) ==
    LET inside == {k \in (s + 1)..Len(lines) :
                      \A m \in (s + 1)..k :
                          /\ ~StartsWith(lines[m], "** filename:")
                          /\ ~StartsWith(lines[m], "** contribution counts:")
                          /\ ~StartsWith(lines[m], "******")}
        results == {k \in inside : StartsWith(lines[k], "** result:")}
    IN IF results = {} THEN ""
       ELSE RStripBang(Rest(lines[CHOOSE k \in results : \A m \in results : m <= k]))

\* C30: the ConsCS log parser terminates on every input, takes each "** filename:" line as
\* a block start exactly once, and emits at most one finding per block: for the blocks
\* whose "** result:" value without trailing "!" is present and not CONSTRAINED.
C30_ScanTerminatesOneFindingPerBlock ==
    /\ <>(pc = "done")
    /\ [](pc = "done" =>
          LET lines == rawFile.content
              starts == parsedOut.starts
              reported == SelectSeq(starts, LAMBDA s :
                              BlockResult(lines, s) \notin {"", "CONSTRAINED"})
          IN /\ \A m, n \in DOMAIN starts : m < n => starts[m] < starts[n]
             /\ {starts[n] : n \in DOMAIN starts}
                   = {k \in DOMAIN lines : StartsWith(lines[k], "** filename:")}
             /\ Len(parsedOut.findings) = Len(reported)
             /\ \A n \in DOMAIN reported :
                   parsedOut.findings[n].type = BlockResult(lines, reported[n]))

\* the parser returned from a log of two consecutive blocks, one of them reported
C30_Witness ==
    /\ pc = "done"
    /\ Len(parsedOut.starts) = 2
    /\ Len(parsedOut.findings) = 1
    /\ parsedOut.findings[1].type = "UNDER-CONSTRAINED"

====
